---- MODULE Spec2Model ----
(***************************************************************************)
(* TerrainMapAtlas of ThreeGIS: the per-frame update() of the tile-atlas   *)
(* engine, its clear(), and the completion handlers of the tile fetches    *)
(* it issues, as a state machine.                                          *)
(*                                                                         *)
(* Lengths are metres, times are milliseconds, angles are tenths of a      *)
(* degree.  The camera moves along the x axis over one tile boundary; all  *)
(* numeric results that three.js or the projection utility deliver (ray    *)
(* hits, frustum tests, tile lookups) are inputs of the frame.             *)
(***************************************************************************)
EXTENDS Integers, Sequences, FiniteSets, TLC

VARIABLES
    cfg,        \* terrain.config, read by every update()
    env,        \* the frames the host can deliver (input sets of a run)
    atlas,      \* this._state
    retired,    \* earlier this._state objects still held by fetch closures
    fetches,    \* promises of getTileTexture that have not settled
    pinNet,     \* tile source: pin() calls minus unpin() calls, per key
    uniforms,   \* material.userData.mapAtlasUniforms of the terrain material
    material,   \* the terrain material: its hooks and its userData
    refining,   \* the refinement loop of an update() in trapezoid mode, when observed by its iterations
    rtLive,     \* WebGLRenderTargets allocated and not yet disposed
    now,        \* the clock read by _now()
    overlay,    \* OverlayTerrainMesh: the uniforms of its material and its mesh
    last        \* what the last call did (observation only)

vars == <<cfg, env, atlas, retired, fetches, pinNet, uniforms, material, refining, rtLive, now, overlay, last>>

---------------------------------------------------------------------------
(* Bounds of the model *)

\* the clock stops advancing here
MaxTime == 500
\* replaced this._state objects that closures may still hold
MaxRetired == 1
\* promises in flight at once
MaxInFlight == 2
\* pin calls and unpin calls of one key that have no counterpart
MaxPinDrift == 2
\* stands for this._opts.mapDrapeAtlasMaxNewLoadsPerTick (32 in the source),
\* scaled to the few tiles of the model's world
MaxNewLoadsPerTick == 1

(* Program constants *)
MAX_ATLAS_ZOOM == 18
DefaultTileSize == 256

---------------------------------------------------------------------------
(* Small helpers *)

Max2(a, b) == IF a >= b THEN a ELSE b
Min2(a, b) == IF a <= b THEN a ELSE b
clamp(v, a, b) == Max2(a, Min2(b, v))
Abs(a) == IF a < 0 THEN -a ELSE a
Pow2(k) == 2 ^ k
FloorDiv(a, b) == a \div b

SetMin(S) == CHOOSE m \in S : \A o \in S : m <= o
SetMax(S) == CHOOSE m \in S : \A o \in S : m >= o

\* smallest power of two >= v (math.js nextPow2)
nextPow2(v) == CHOOSE p \in {Pow2(k) : k \in 0..8} :
    p >= v /\ \A q \in {Pow2(k) : k \in 0..8} : q >= v => p <= q

\* Map.delete / Map.set on a function with a finite domain
MapDel(m, k) == [j \in DOMAIN m \ {k} |-> m[j]]
MapSet(m, k, v) == [j \in DOMAIN m \cup {k} |-> IF j = k THEN v ELSE m[j]]
NoMap == [j \in {} |-> 0]

---------------------------------------------------------------------------
(* Tile keys and the projection utility *)

\* `t:${scheme}:${z}-${x}-${y}` with the scheme fixed; split('-') gives x and y back
tileKey(z, x, y) == <<z, x, y>>
KeyZ(key) == key[1]
KeyX(key) == key[2]
KeyY(key) == key[3]

\* WORLD / 2^z, the zoom-18 tile rounded to whole metres so that a parent is
\* exactly two children wide
tileSizeMeters(z) == 153 * Pow2(MAX_ATLAS_ZOOM - z)

\* the zoom-18 tile whose corner is the origin of the local mercator frame,
\* and that corner in metres from the corner of tile (0, 0)
OriginTile == [x |-> 100, y |-> 50]
OriginMeters ==
    [x |-> OriginTile.x * tileSizeMeters(MAX_ATLAS_ZOOM), y |-> OriginTile.y * tileSizeMeters(MAX_ATLAS_ZOOM)]

\* proj.threeToMercator: the session centre lies 137 m east and 110 m north of
\* that corner, 16 m short of the next zoom-18 tile boundary
threeToMercator(x) == [x |-> x + 137, y |-> 110]

\* proj.mercatorToLonLat then proj.lonLatToTile
mercatorToTileXY(mx, my, z) ==
    [x |-> FloorDiv(OriginMeters.x + mx, tileSizeMeters(z)),
     y |-> FloorDiv(OriginMeters.y + my, tileSizeMeters(z))]

\* proj.tileToMercatorBounds
tileToMercatorBounds(tx, ty, z) ==
    LET s == tileSizeMeters(z)
        x0 == tx * s - OriginMeters.x
        y0 == ty * s - OriginMeters.y
    IN  [minX |-> x0, maxX |-> x0 + s, minY |-> y0, maxY |-> y0 + s]

\* floor of the square root, by bisection
RECURSIVE SqrtBetween(_, _, _)
SqrtBetween(n, lo, hi) ==
    IF lo >= hi THEN lo
    ELSE LET mid == (lo + hi + 1) \div 2
         IN  IF mid * mid <= n THEN SqrtBetween(n, mid, hi) ELSE SqrtBetween(n, lo, mid - 1)
ISqrt(n) == SqrtBetween(n, 0, 46340)

\* math.js distancePointToRect, to whole metres
distancePointToRect(px, py, b) ==
    LET dx == Max2(0, Max2(b.minX - px, px - b.maxX))
        dy == Max2(0, Max2(b.minY - py, py - b.maxY))
    IN  IF dx = 0 THEN dy ELSE IF dy = 0 THEN dx ELSE ISqrt(dx * dx + dy * dy)

---------------------------------------------------------------------------
(* Zoom-level state *)

NoTex == <<>>

\* variant: the new record starts without the bookkeeping of the old one
NewZoomStateEmpty(grid, cellSize, carryTextures, carryLoads, carryActiveKeys) ==
    [grid |-> grid,
     cellSize |-> cellSize,
     rt |-> "live",
     cells |-> [i \in 0..(grid.gridSize * grid.gridSize - 1) |-> NoTex],
     loads |-> {},
     activeKeys |-> {},
     dirty |-> TRUE,
     textures |-> {}]
\* the record _ensureZoomState builds: every cell transparent, dirty
NewZoomState(grid, cellSize, carryTextures, carryLoads, carryActiveKeys) ==
    [grid |-> grid,
     cellSize |-> cellSize,
     rt |-> "live",
     cells |-> [i \in 0..(grid.gridSize * grid.gridSize - 1) |-> NoTex],
     loads |-> carryLoads,
     activeKeys |-> carryActiveKeys,
     dirty |-> TRUE,
     textures |-> carryTextures]

\* a uniform slot that holds the render target of zoom z now holds a disposed one
StaleSlots(uni, z) ==
    [uni EXCEPT !.slots = [i \in DOMAIN uni.slots |->
        IF uni.slots[i].z = z /\ uni.slots[i].tex = "live"
        THEN [uni.slots[i] EXCEPT !.tex = "stale"] ELSE uni.slots[i]]]

\* a render target is allocated or a composite pass runs on the threaded
\* state S: S.work tells whether any did after _setUniforms of this call
\* ("after"), else whether any did before it ("before")
Worked(S) == IF S.published \/ S.work = "after" THEN "after" ELSE "before"

\* variant: the zoom state is rebuilt on every call
ensureZoomStateAlways(S, z, grid, cellSizePx) ==
    LET has == z \in DOMAIN S.byZoom
        st == S.byZoom[z]
    IN  [S EXCEPT
            !.byZoom = MapSet(S.byZoom, z,
                NewZoomState(grid, Max2(1, cellSizePx),
                    IF has THEN st.textures ELSE {},
                    IF has THEN st.loads ELSE {},
                    IF has THEN st.activeKeys ELSE {})),
            !.rtLive = IF has THEN S.rtLive ELSE S.rtLive + 1,
            !.uni = IF has THEN StaleSlots(S.uni, z) ELSE S.uni]
\* _ensureZoomState(z, grid, cellSizePx) on the threaded state S
ensureZoomState(S, z, grid, cellSizePx) ==
    LET cellSize == Max2(1, cellSizePx)
        has == z \in DOMAIN S.byZoom
        st == S.byZoom[z]
        gridChanged == ~has \/ st.grid # grid
        cellChanged == ~has \/ st.cellSize # cellSize
    IN  IF ~has \/ gridChanged \/ cellChanged
        THEN [S EXCEPT
                !.byZoom = MapSet(S.byZoom, z,
                    NewZoomState(grid, cellSize,
                        IF has THEN st.textures ELSE {},
                        IF has THEN st.loads ELSE {},
                        IF has THEN st.activeKeys ELSE {})),
                !.rtLive = IF has THEN S.rtLive ELSE S.rtLive + 1,
                !.uni = IF has THEN StaleSlots(S.uni, z) ELSE S.uni,
                !.work = Worked(S)]
        ELSE S

\* the tile source's view of the atlas: pin() calls minus unpin() calls of every
\* key for which they differ
PinCount(pins, k) == IF k \in DOMAIN pins THEN pins[k] ELSE 0
AdjustPins(pins, keys, d) ==
    LET val(k) == PinCount(pins, k) + (IF k \in keys THEN d ELSE 0)
    IN  [k \in {j \in DOMAIN pins \cup keys : val(j) # 0} |-> val(k)]

\* if (tiles) for (const key of keys) tiles.pin?.(key) / tiles.unpin?.(key)
PinAll(pins, keys, tiles) == IF tiles THEN AdjustPins(pins, keys, 1) ELSE pins
\* variant: keys are never unpinned
UnpinAllLeaks(pins, keys, tiles) == pins
UnpinAll(pins, keys, tiles) == IF tiles THEN AdjustPins(pins, keys, -1) ELSE pins

\* variant: the disposal block leaves the zoom in the table
DisposeZoomKeeps(S, z, tiles) ==
    IF z \in DOMAIN S.byZoom
    THEN [S EXCEPT
            !.pins = UnpinAll(S.pins, S.byZoom[z].activeKeys, tiles),
            !.rtLive = S.rtLive - 1]
    ELSE S
\* the disposal block of update(): unpin the active keys, delete the zoom, dispose rt
DisposeZoom(S, z, tiles) ==
    IF z \in DOMAIN S.byZoom
    THEN [S EXCEPT
            !.pins = UnpinAll(S.pins, S.byZoom[z].activeKeys, tiles),
            !.byZoom = MapDel(S.byZoom, z),
            !.rtLive = S.rtLive - 1,
            !.uni = StaleSlots(S.uni, z)]
    ELSE S

\* _renderZoom(st); st.dirty = false
renderZoom(st) == [st EXCEPT !.dirty = FALSE]

---------------------------------------------------------------------------
(* update(): reconciling one zoom's candidates with its state *)

\* a candidate tile: {key, tileX, tileY, rectDist}
Cand(z, x, y, d) == [key |-> tileKey(z, x, y), tileX |-> x, tileY |-> y, rectDist |-> d]

\* candidates.sort((a, b) => a.rectDist - b.rectDist): stable
RECURSIVE InsertByDist(_, _)
InsertByDist(sorted, c) ==
    IF sorted = <<>> THEN <<c>>
    ELSE IF sorted[Len(sorted)].rectDist <= c.rectDist THEN Append(sorted, c)
    ELSE Append(InsertByDist(SubSeq(sorted, 1, Len(sorted) - 1), c), sorted[Len(sorted)])

\* variant: the candidates stay in scan order
SortByScan(cands) == cands
RECURSIVE SortByDist(_)
SortByDist(cands) ==
    IF cands = <<>> THEN <<>>
    ELSE InsertByDist(SortByDist(SubSeq(cands, 1, Len(cands) - 1)), cands[Len(cands)])

KeysOf(cands) == {cands[i].key : i \in DOMAIN cands}

\* maxRTSize when the renderer reports no capability
maxRTSize == 4096

\* maxGridForCell(cellSizePx)
maxGridForCell(cellSizePx, wantsMipmaps) ==
    LET cell == Max2(1, cellSizePx)
        raw == Max2(1, maxRTSize \div cell)
    IN  IF ~wantsMipmaps THEN raw
        ELSE SetMax({Pow2(k) : k \in {j \in 0..12 : Pow2(j) <= raw}})

\* getCellSizeOverride / resolveCellSize(z, fallback)
hasCellSizeOverride(c, z) == z \in DOMAIN c.cellSizeByZoom
resolveCellSize(c, z, fallback) ==
    IF hasCellSizeOverride(c, z) THEN clamp(c.cellSizeByZoom[z], 32, 2048)
    ELSE clamp(fallback, 32, 2048)

\* variant: the origin stays centred on the camera tile
gridOriginCentred(centerT, z, gridSize, minT, maxT) ==
    Max2(0, Min2(Pow2(z) - gridSize, centerT - (gridSize \div 2)))
\* the origin of a zoom's atlas along one axis: centred on the camera tile,
\* moved to contain minT..maxT, clamped into 0 .. n - gridSize
gridOrigin(centerT, z, gridSize, minT, maxT) ==
    LET clampOrigin(o) == Max2(0, Min2(Pow2(z) - gridSize, o))
        o0 == clampOrigin(centerT - (gridSize \div 2))
        o1 == IF o0 > minT THEN clampOrigin(minT) ELSE o0
    IN  IF o1 + gridSize - 1 < maxT THEN clampOrigin(maxT - gridSize + 1) ELSE o1

\* variant: the grid size is a power of two with and without mipmaps
gridSizeForPow2(w, h, wantsMipmaps, maxGridSize, path) ==
    IF path # "trapezoid" /\ nextPow2(Max2(w, h)) > maxGridSize THEN maxGridSize
    ELSE nextPow2(Max2(w, h))
\* gridSize: the larger side of the candidates' bounds, a power of two under
\* mipmaps, capped by maxGridSize outside trapezoid mode
gridSizeFor(w, h, wantsMipmaps, maxGridSize, path) ==
    LET g0 == IF wantsMipmaps THEN nextPow2(Max2(w, h)) ELSE Max2(w, h)
    IN  IF path # "trapezoid" /\ g0 > maxGridSize THEN maxGridSize ELSE g0

\* the grid {originX, originY, gridSize} of a zoom whose candidates span xs and ys
gridOfSize(gridSize, xs, ys, z, center) ==
    [originX |-> gridOrigin(center.x, z, gridSize, SetMin(xs), SetMax(xs)),
     originY |-> gridOrigin(center.y, z, gridSize, SetMin(ys), SetMax(ys)),
     gridSize |-> gridSize]

gridOver(xs, ys, z, center, wantsMipmaps, maxGridSize, path) ==
    gridOfSize(gridSizeFor(SetMax(xs) - SetMin(xs) + 1, SetMax(ys) - SetMin(ys) + 1,
                           wantsMipmaps, maxGridSize, path),
               xs, ys, z, center)

GridFor(cands, z, center, wantsMipmaps, maxGridSize, path) ==
    gridOver({cands[i].tileX : i \in DOMAIN cands}, {cands[i].tileY : i \in DOMAIN cands},
             z, center, wantsMipmaps, maxGridSize, path)

InGrid(grid, x, y) ==
    LET ix == x - grid.originX
        iy == y - grid.originY
    IN  ~(ix < 0 \/ iy < 0 \/ ix >= grid.gridSize \/ iy >= grid.gridSize)
CellIdx(grid, x, y) == (y - grid.originY) * grid.gridSize + (x - grid.originX)

\* variant: the textures of keys no longer desired stay
PruneTexturesKeeps(st, dropped) == st

\* the loop that drops textures of keys no longer desired and clears their cells
RECURSIVE PruneTextures(_, _)
PruneTextures(st, dropped) ==
    IF dropped = {} THEN st
    ELSE LET key == CHOOSE k \in dropped : TRUE
             st1 == [st EXCEPT !.textures = @ \ {key}]
             idx == CellIdx(st.grid, KeyX(key), KeyY(key))
             st2 == IF InGrid(st.grid, KeyX(key), KeyY(key)) /\ st.cells[idx] # NoTex
                    THEN [st1 EXCEPT !.cells[idx] = NoTex, !.dirty = TRUE]
                    ELSE st1
         IN  PruneTextures(st2, dropped \ {key})

\* a promise of getTileTexture: the state object its closure captured (0 is the
\* current this._state, i > 0 is retired[i]), the tile, and a serial number
NewFetch(fs, key) ==
    [at |-> 0, key |-> key,
     n |-> SetMin({m \in 0..Cardinality(fs) : ~\E f \in fs : f.at = 0 /\ f.key = key /\ f.n = m})]

\* one pass of the fetch loop body for candidate c; L = [st, issued, fetches, calls]
FetchStep(L, c, path, tiles) ==
    LET st == L.st
        idx == CellIdx(st.grid, c.tileX, c.tileY)
        existing == c.key \in st.textures
        bound == IF st.cells[idx] # c.key
                 THEN [L EXCEPT !.st = [st EXCEPT !.cells[idx] = c.key, !.dirty = TRUE]]
                 ELSE L
        issue == IF L.issued >= MaxNewLoadsPerTick THEN L
                 ELSE IF tiles
                      THEN [L EXCEPT !.issued = @ + 1, !.calls = @ + 1,
                                     !.fetches = @ \cup {NewFetch(L.fetches, c.key)},
                                     !.st = [st EXCEPT !.loads = @ \cup {c.key}]]
                      ELSE [L EXCEPT !.issued = @ + 1]
    IN  IF path = "trapezoid"
        THEN IF c.key \in st.loads THEN L
             ELSE IF ~InGrid(st.grid, c.tileX, c.tileY) THEN L
             ELSE IF existing THEN bound
             ELSE issue
        ELSE IF existing THEN bound
             ELSE IF c.key \in st.loads THEN L
             ELSE issue

RECURSIVE FetchLoop(_, _, _, _, _)
FetchLoop(L, list, i, path, tiles) ==
    IF i > Len(list) THEN L
    ELSE FetchLoop(FetchStep(L, list[i], path, tiles), list, i + 1, path, tiles)

\* the end of the per-zoom loop body: the composite pass of a dirty zoom
reconcileLoaded(S, z, L) ==
    [S EXCEPT !.byZoom = MapSet(@, z, IF L.st.dirty THEN renderZoom(L.st) ELSE L.st),
              !.fetches = L.fetches, !.calls = L.calls,
              !.work = IF L.st.dirty THEN Worked(S) ELSE @]

\* pin and unpin against the new desired keys, prune the textures, run the fetch loop
reconcileKeys(S2, z, list, c, path, tiles) ==
    LET st1 == S2.byZoom[z]
        desiredKeys == KeysOf(list)
        pins1 == UnpinAll(S2.pins, st1.activeKeys \ desiredKeys, tiles)
        pins2 == PinAll(pins1, desiredKeys \ st1.activeKeys, tiles)
        st2 == [st1 EXCEPT !.activeKeys = desiredKeys]
        L0 == [st |-> PruneTextures(st2, st2.textures \ desiredKeys), issued |-> 0,
               fetches |-> S2.fetches, calls |-> S2.calls]
    IN  IF c.skipTileLoad
        THEN [S2 EXCEPT !.pins = pins2, !.byZoom = MapSet(@, z, st2)]
        ELSE reconcileLoaded([S2 EXCEPT !.pins = pins2], z, FetchLoop(L0, list, 1, path, tiles))

\* pendingCellSizeByZoom.delete(z) once the zoom state has the desired cell size
dropPending(S1, z, desiredCellSize) ==
    IF z \in DOMAIN S1.pending /\ S1.byZoom[z].cellSize = desiredCellSize
    THEN [S1 EXCEPT !.pending = MapDel(@, z)] ELSE S1

\* _ensureZoomState for the grid, then the tiles that lie in it (cellInfos)
reconcileGrid(S0, z, sorted, grid, desiredCellSize, c, path, tiles) ==
    reconcileKeys(dropPending(ensureZoomState(S0, z, grid, desiredCellSize), z, desiredCellSize), z,
                  IF path = "trapezoid" THEN sorted
                  ELSE SelectSeq(sorted, LAMBDA k : InGrid(grid, k.tileX, k.tileY)),
                  c, path, tiles)

\* the cell size the zoom is to have: override, pending size, current size, default
desiredCellSizeOf(S0, z, c) ==
    resolveCellSize(c, z, IF z \in DOMAIN S0.pending THEN S0.pending[z]
                          ELSE IF z \in DOMAIN S0.byZoom THEN S0.byZoom[z].cellSize
                          ELSE DefaultTileSize)

reconcileSorted(S0, z, sorted, c, path, center, tiles) ==
    reconcileGrid(S0, z, sorted,
                  GridFor(sorted, z, center, c.mipmaps,
                          maxGridForCell(desiredCellSizeOf(S0, z, c), c.mipmaps), path),
                  desiredCellSizeOf(S0, z, c), c, path, tiles)

\* the body of the per-zoom loop from the sort of the candidates on
Reconcile(S0, z, cands, c, path, center, tiles) ==
    reconcileSorted(S0, z, SortByDist(cands), c, path, center, tiles)

---------------------------------------------------------------------------
(* this._state, clear() and _setUniforms() *)

NoView == <<>>
NoTime == -1

\* { byZoom: new Map(), lastUpdate: 0, pendingCellSizeByZoom: new Map() }
NewAtlasState ==
    [byZoom |-> NoMap, lastUpdate |-> 0, pending |-> NoMap, lastView |-> NoView, lastMoveAt |-> NoTime]

EmptySlot == [z |-> 0, tex |-> "null", grid |-> <<0, 0, 0>>, cellSize |-> 0]
NoUniforms == [present |-> FALSE, enabled |-> 0, smoothness |-> 0, slots |-> [i \in 1..4 |-> EmptySlot]]

(* OverlayTerrainMesh: the uniforms of its shader material *)

\* let MAX_TILES = 16; #define MAX_TILES ${MAX_TILES}
MAX_TILES == 16

\* the placeholder texture, bounds and elevation range of an unused entry
Placeholder == 0

\* createShaderMaterial(): MAX_TILES placeholders in each array, tileCount 0
NewOverlay ==
    [heightTextures |-> [i \in 1..MAX_TILES |-> Placeholder],
     tileBounds |-> [i \in 1..MAX_TILES |-> Placeholder],
     tileElevRange |-> [i \in 1..MAX_TILES |-> Placeholder],
     tileCount |-> 0, mesh |-> FALSE]

\* tiles.forEach: the tiles that have a heightTexture, in order
RECURSIVE WithHeightTexture(_)
WithHeightTexture(tiles) ==
    IF tiles = <<>> THEN <<>>
    ELSE (IF tiles[1].heightTexture THEN <<tiles[1].id>> ELSE <<>>) \o WithHeightTexture(Tail(tiles))

\* Array.from({ length: MAX_TILES }, (_, i) => values[i] || placeholder)
Padded(values) == [i \in 1..MAX_TILES |-> IF i <= Len(values) THEN values[i] ELSE Placeholder]

\* this.material.uniforms.tileCount.value = tiles.length
tileCountOf(tiles) == Len(tiles)

\* the uniforms createMesh() and updateFromTerrain() assign from the tiles
withTiles(o, tiles) ==
    [o EXCEPT !.heightTextures = Padded(WithHeightTexture(tiles)),
              !.tileBounds = Padded(WithHeightTexture(tiles)),
              !.tileElevRange = Padded(WithHeightTexture(tiles)),
              !.tileCount = tileCountOf(tiles)]

\* createMesh(): without intersecting tiles the mesh is made over the
\* polygon bounds and the uniforms stay
createMesh(o, tiles) ==
    IF tiles = <<>> THEN [o EXCEPT !.mesh = TRUE]
    ELSE [withTiles(o, tiles) EXCEPT !.mesh = TRUE]

\* updateFromTerrain(renderer): returns early without loaded terrain tiles or
\* without intersecting tiles
updateFromTerrain(o, loaded, tiles) ==
    IF ~loaded \/ tiles = <<>> THEN o ELSE withTiles(o, tiles)

---------------------------------------------------------------------------
(* The material and its hooks *)

\* a value of material.onBeforeCompile or material.customProgramCacheKey:
\* whether it is a function, and what a call of it does, in order: the
\* customizations that run on the shader, or the parts of the cache key
Undefined == [fn |-> FALSE, calls |-> <<>>]
Hook(who, v) == [fn |-> TRUE, calls |-> <<[who |-> who, v |-> v]>>]

\* the hooks a material has before the atlas touches it: those of the
\* Material prototype, or functions of the host
DefaultHook == Hook("default", 0)
HostHook == Hook("host", 0)

\* this._shaderVersion = 8
shaderVersion == 8

\* the material as it is constructed: created is the onBeforeCompile it was
\* constructed with (never written afterwards), mapAtlasVersion 0 is an
\* absent version
NewMaterial(hook, map) ==
    [map |-> map, onBeforeCompile |-> hook, customProgramCacheKey |-> hook, created |-> hook,
     userData |-> [mapAtlasInstalled |-> FALSE, mapAtlasVersion |-> 0,
                   mapAtlasPrevOnBeforeCompile |-> Undefined,
                   mapAtlasPrevCustomProgramCacheKey |-> Undefined]]

\* a ?? b
Nullish(a, b) == IF a # Undefined THEN a ELSE b

\* the function installOnMaterial assigns: it calls prior first when prior is
\* a function, then injects the atlas code (as onBeforeCompile) or appends
\* the version suffix (as customProgramCacheKey)
atlasHook(prior, version) ==
    [fn |-> TRUE,
     calls |-> (IF prior.fn THEN prior.calls ELSE <<>>) \o <<[who |-> "atlas", v |-> version]>>]

\* variant: the hook to call first is the material's current hook, whatever
\* userData has stored
installOnMaterialOverCurrent(m, enabled, version) ==
    IF ~m.map THEN m
    ELSE IF ~enabled THEN m
    ELSE IF m.userData.mapAtlasInstalled /\ m.userData.mapAtlasVersion = version THEN m
    ELSE LET priorOnBeforeCompile == m.onBeforeCompile
             priorKey == m.customProgramCacheKey
         IN  [m EXCEPT !.userData = [mapAtlasInstalled |-> TRUE, mapAtlasVersion |-> version,
                                     mapAtlasPrevOnBeforeCompile |-> priorOnBeforeCompile,
                                     mapAtlasPrevCustomProgramCacheKey |-> priorKey],
                       !.onBeforeCompile = atlasHook(priorOnBeforeCompile, version),
                       !.customProgramCacheKey = atlasHook(priorKey, version)]

\* installOnMaterial(material) of an atlas whose _shaderVersion is version,
\* with config.mapDrapeShaderPatchEnabled === true being enabled
installOnMaterial(m, enabled, version) ==
    IF ~m.map THEN m
    ELSE IF ~enabled THEN m
    ELSE IF m.userData.mapAtlasInstalled /\ m.userData.mapAtlasVersion = version THEN m
    ELSE LET priorOnBeforeCompile == Nullish(m.userData.mapAtlasPrevOnBeforeCompile, m.onBeforeCompile)
             priorKey == Nullish(m.userData.mapAtlasPrevCustomProgramCacheKey, m.customProgramCacheKey)
         IN  [m EXCEPT !.userData = [mapAtlasInstalled |-> TRUE, mapAtlasVersion |-> version,
                                     mapAtlasPrevOnBeforeCompile |-> priorOnBeforeCompile,
                                     mapAtlasPrevCustomProgramCacheKey |-> priorKey],
                       !.onBeforeCompile = atlasHook(priorOnBeforeCompile, version),
                       !.customProgramCacheKey = atlasHook(priorKey, version)]

\* whether a compile of the material runs the atlas injection, which creates
\* the atlas uniforms
InjectsAtlas(m) == \E i \in 1..Len(m.onBeforeCompile.calls) : m.onBeforeCompile.calls[i].who = "atlas"

\* the terrain's material, with a texture map and the hooks of the prototype
TerrainMaterial == NewMaterial(DefaultHook, TRUE)

\* Array.from(keys).sort((a, b) => b - a): the zooms of a set in descending order
RECURSIVE SortDesc(_)
SortDesc(zs) == IF zs = {} THEN <<>> ELSE <<SetMax(zs)>> \o SortDesc(zs \ {SetMax(zs)})

\* variant: the slice keeps the end of the sorted zooms
getAtlasZoomSlotsTail(byZoom, maxSlots) ==
    LET all == SortDesc(DOMAIN byZoom)
        n == Min2(Len(all), Max2(1, maxSlots))
    IN  SubSeq(all, Len(all) - n + 1, Len(all))
\* _getAtlasZoomSlots(maxSlots)
getAtlasZoomSlots(byZoom, maxSlots) ==
    LET all == SortDesc(DOMAIN byZoom)
    IN  SubSeq(all, 1, Min2(Len(all), Max2(1, maxSlots)))

\* _setUniforms(enabled) on the uniforms of the terrain material
setUniforms(uni, byZoom, enabled, optSmoothness) ==
    IF ~uni.present THEN uni
    ELSE LET zoomSlots == IF enabled THEN getAtlasZoomSlots(byZoom, 4) ELSE <<>>
         IN  [present |-> TRUE,
              enabled |-> IF enabled THEN 1 ELSE 0,
              smoothness |-> IF enabled THEN Max2(0, Min2(10, optSmoothness)) ELSE 0,
              slots |-> [i \in 1..4 |->
                  IF i <= Len(zoomSlots)
                  THEN LET st == byZoom[zoomSlots[i]]
                       IN  [z |-> zoomSlots[i], tex |-> "live",
                            grid |-> <<st.grid.originX, st.grid.originY, st.grid.gridSize>>,
                            cellSize |-> st.cellSize]
                  ELSE EmptySlot]]

\* the render targets of every zoom of a table are disposed
RECURSIVE StaleAll(_, _)
StaleAll(uni, zs) ==
    IF zs = {} THEN uni
    ELSE LET z == CHOOSE k \in zs : TRUE IN StaleAll(StaleSlots(uni, z), zs \ {z})

ActiveKeysOf(byZoom) == UNION {byZoom[z].activeKeys : z \in DOMAIN byZoom}

\* variant: clear() without its closing _setUniforms(false)
clearKeepsUniforms(W, tiles) ==
    LET old == W.atlas
        held == \E f \in W.fetches : f.at = 0
        disposed == [old EXCEPT !.byZoom =
                        [z \in DOMAIN old.byZoom |-> [old.byZoom[z] EXCEPT !.rt = "disposed"]]]
        retired1 == IF held THEN Append(W.retired, disposed) ELSE W.retired
    IN  [atlas |-> NewAtlasState,
         retired |-> retired1,
         fetches |-> {IF f.at = 0 THEN [f EXCEPT !.at = Len(retired1)] ELSE f : f \in W.fetches},
         pins |-> UnpinAll(W.pins, ActiveKeysOf(old.byZoom), tiles),
         rtLive |-> W.rtLive - Cardinality(DOMAIN old.byZoom),
         uni |-> StaleAll(W.uni, DOMAIN old.byZoom),
         mat |-> W.mat]

\* clear() on the program state W; the replaced this._state stays reachable
\* from the completion handlers of the promises it issued
clear(W, tiles) ==
    LET old == W.atlas
        held == \E f \in W.fetches : f.at = 0
        disposed == [old EXCEPT !.byZoom =
                        [z \in DOMAIN old.byZoom |-> [old.byZoom[z] EXCEPT !.rt = "disposed"]]]
        retired1 == IF held THEN Append(W.retired, disposed) ELSE W.retired
    IN  [atlas |-> NewAtlasState,
         retired |-> retired1,
         fetches |-> {IF f.at = 0 THEN [f EXCEPT !.at = Len(retired1)] ELSE f : f \in W.fetches},
         pins |-> UnpinAll(W.pins, ActiveKeysOf(old.byZoom), tiles),
         rtLive |-> W.rtLive - Cardinality(DOMAIN old.byZoom),
         uni |-> setUniforms(StaleAll(W.uni, DOMAIN old.byZoom), NoMap, FALSE, 0),
         mat |-> W.mat]

\* what the closures of the promises fs can still reach of a replaced
\* this._state object held at index i: the zoom states of their own zooms and
\* the pending cell sizes
reachableOf(T, fs, i) ==
    LET zs == {KeyZ(f.key) : f \in {g \in fs : g.at = i}}
    IN  [NewAtlasState EXCEPT
            !.byZoom = [z \in DOMAIN T.byZoom \cap zs |-> T.byZoom[z]],
            !.pending = T.pending]

\* replaced state objects that no closure holds any more are unreachable
RECURSIVE Collect(_, _, _)
Collect(rs, fs, i) ==
    IF i > Len(rs) THEN [retired |-> rs, fetches |-> fs]
    ELSE IF \E f \in fs : f.at = i
         THEN Collect([rs EXCEPT ![i] = reachableOf(rs[i], fs, i)], fs, i + 1)
    ELSE Collect(SubSeq(rs, 1, i - 1) \o SubSeq(rs, i + 1, Len(rs)),
                 {IF f.at > i THEN [f EXCEPT !.at = @ - 1] ELSE f : f \in fs}, i)

\* variant: the stored hooks are deleted without being put back
disableOnAllMaterialsKeepsHooks(W) ==
    LET ud == W.mat.userData
    IN  IF ~ud.mapAtlasInstalled THEN W
        ELSE [W EXCEPT
                !.mat = [W.mat EXCEPT
                    !.userData = [ud EXCEPT !.mapAtlasInstalled = FALSE,
                                            !.mapAtlasPrevOnBeforeCompile = Undefined,
                                            !.mapAtlasPrevCustomProgramCacheKey = Undefined]],
                !.uni = NoUniforms]

\* disableOnAllMaterials(): on a material that carries the atlas hook the
\* stored hooks are put back and the atlas entries of userData, the uniforms
\* among them, are deleted; mapAtlasVersion stays
disableOnAllMaterials(W) ==
    LET ud == W.mat.userData
    IN  IF ~ud.mapAtlasInstalled THEN W
        ELSE [W EXCEPT
                !.mat = [W.mat EXCEPT
                    !.onBeforeCompile =
                        IF ud.mapAtlasPrevOnBeforeCompile # Undefined
                        THEN ud.mapAtlasPrevOnBeforeCompile ELSE @,
                    !.customProgramCacheKey =
                        IF ud.mapAtlasPrevCustomProgramCacheKey # Undefined
                        THEN ud.mapAtlasPrevCustomProgramCacheKey ELSE @,
                    !.userData = [ud EXCEPT !.mapAtlasInstalled = FALSE,
                                            !.mapAtlasPrevOnBeforeCompile = Undefined,
                                            !.mapAtlasPrevCustomProgramCacheKey = Undefined]],
                !.uni = NoUniforms]

---------------------------------------------------------------------------
(* The injected fragment shader *)

\* sampleMapAtlas(tex, grid, ..., wpos, smoothness): the alpha of the returned
\* colour in fortieths, 0 for vec4(0.0).  texel is what the slot's render
\* target holds at the fragment: "none" outside the grid or at most
\* ALPHA_CUTOFF (0.25) opaque, "solid" opaque with opaque blur taps of its
\* colour, "isolated" opaque and black with eight transparent blur taps, for
\* which blur.a = 4 / 16; c.a = mix(1.0, blur.a, smoothness)
sampleMapAtlas(slot, texel, smoothness) ==
    IF slot.grid[3] = 0 THEN 0
    ELSE IF texel = "none" THEN 0
    ELSE IF smoothness <= 0 THEN 40
    ELSE LET s == Max2(0, Min2(10, smoothness))
             blurA == IF texel = "isolated" THEN 10 ELSE 40
         IN  IF ((10 - s) * 40 + s * blurA) \div 10 <= 10 THEN 0 ELSE 40

\* if (c_i.a > 0.0 && uMapAtlasZoom_i > bestZ) { bestZ = uMapAtlasZoom_i; bestSlot = i; }
\* for the slots i .. 4 in order; slots count from 1 here and bestSlot 0 is none
RECURSIVE bestSlotFrom(_, _, _, _, _)
bestSlotFrom(uni, texels, i, bestZ, bestSlot) ==
    IF i > 4 THEN bestSlot
    ELSE IF sampleMapAtlas(uni.slots[i], texels[i], 0) > 0 /\ uni.slots[i].z > bestZ
    THEN bestSlotFrom(uni, texels, i + 1, uni.slots[i].z, i)
    ELSE bestSlotFrom(uni, texels, i + 1, bestZ, bestSlot)

\* the code injected after map_fragment: the slot whose colour replaces
\* diffuseColor.rgb, 0 when the base colour stays
mapFragment(uni, texels) ==
    IF ~(uni.enabled > 0) THEN 0
    ELSE LET best == bestSlotFrom(uni, texels, 1, -1, 0)
         IN  IF best = 0 THEN 0
             ELSE IF sampleMapAtlas(uni.slots[best], texels[best], uni.smoothness) > 0 THEN best
             ELSE 0

---------------------------------------------------------------------------
(* update(): what one frame delivers, and the parts both LOD modes share *)

\* variant: camMerc is not validated
camMercUnchecked(f) == TRUE
\* proj.threeToMercator(camera.position) is null without a projection and
\* non-finite for a non-finite camera position
camMercValid(f) == f.proj = "ok"

\* cameraHeight: camera.position.y above the (flat, zero) ground under the camera
cameraHeight(f) == f.h

\* the height of the camera above the centre ray's ground hit; the ground is
\* level, so the hit, when there is one, lies f.h below the camera
cameraHeightForLod(f) == f.h

\* _isTileVisibleInFrustum as the frame delivers it: every tile, only the tile
\* under the camera, or none
isTileVisibleInFrustum(f, rectDist) ==
    \/ f.vis = "all"
    \/ f.vis = "cam" /\ rectDist = 0

\* WORLD * viewportH / (256 * 2 * tan(fov / 2)) in metres for fov = 60 degrees
\* and viewportH = 720: the depth at which a zoom-0 texel covers one pixel
DepthAtZoom0 == 97610576

\* variant: the logarithm is rounded down
RECURSIVE FloorLog2From(_, _)
FloorLog2From(q, k) == IF Pow2(k + 1) > q THEN k ELSE FloorLog2From(q, k + 1)
zoomForDepthFloor(depth) == FloorLog2From(Max2(1, DepthAtZoom0 \div depth), 0)
\* Math.ceil(Math.log2(WORLD / (256 * metersPerPixel))) with
\* metersPerPixel = (2 * depth * Math.tan(fovRad / 2)) / viewportH
RECURSIVE CeilLog2From(_, _)
CeilLog2From(q, k) == IF Pow2(k) >= q THEN k ELSE CeilLog2From(q, k + 1)
zoomForDepth(depth) == CeilLog2From((DepthAtZoom0 + depth - 1) \div depth, 0)

\* atlasMinZoom, atlasMaxZoom
atlasMinZoom(c) == Max2(2, Min2(MAX_ATLAS_ZOOM, c.minZoom))
atlasMaxZoom(c) == Max2(atlasMinZoom(c), Min2(MAX_ATLAS_ZOOM, c.maxZoom))

\* the tiles of a tile rectangle in scan order: tileY outer, tileX inner
TilesIn(b) ==
    LET w == b.xMax - b.xMin + 1
        h == b.yMax - b.yMin + 1
    IN  [i \in 1..(w * h) |-> [x |-> b.xMin + ((i - 1) % w), y |-> b.yMin + ((i - 1) \div w)]]

\* the four ground hits of the viewport corner rays, as a mercator box around the camera
hitBox(f) ==
    LET cm == threeToMercator(f.x)
    IN  [minX |-> cm.x - f.quad, maxX |-> cm.x + f.quad, minY |-> cm.y - f.quad, maxY |-> cm.y + f.quad]

\* variant: the square lies around the origin of the mercator frame
squareAroundOrigin(f, r) == [minX |-> 0 - r - 1000, maxX |-> r - 1000, minY |-> 0 - r, maxY |-> r]
\* a camera-centred square of half side r
squareAround(f, r) ==
    LET cm == threeToMercator(f.x)
    IN  [minX |-> cm.x - r, maxX |-> cm.x + r, minY |-> cm.y - r, maxY |-> cm.y + r]

\* the hit box clamped to the camera-centred square; the square if they are disjoint
clampToSquare(f, r) ==
    LET hb == hitBox(f)
        sq == squareAround(f, r)
        cl == [minX |-> Max2(hb.minX, sq.minX), maxX |-> Min2(hb.maxX, sq.maxX),
               minY |-> Max2(hb.minY, sq.minY), maxY |-> Min2(hb.maxY, sq.maxY)]
    IN  IF cl.maxX < cl.minX \/ cl.maxY < cl.minY THEN sq ELSE cl

\* viewportTileBounds / _viewportTileBoundsAtZoom(z): the tiles of the four
\* corners of the mercator box, padded and clamped to the tile range
viewportTileBoundsAtZoom(mb, z, pad) ==
    LET a == mercatorToTileXY(mb.minX, mb.minY, z)
        b == mercatorToTileXY(mb.maxX, mb.maxY, z)
        n == Pow2(z)
        cl(v) == Max2(0, Min2(n - 1, v))
    IN  [xMin |-> cl(Min2(a.x, b.x) - pad), xMax |-> cl(Max2(a.x, b.x) + pad),
         yMin |-> cl(Min2(a.y, b.y) - pad), yMax |-> cl(Max2(a.y, b.y) + pad)]

tileCount(b) == (b.xMax - b.xMin + 1) * (b.yMax - b.yMin + 1)

---------------------------------------------------------------------------
(* update(), LOD mode 'viewport' *)

\* utils/zoomLevel.js getZoomLevelByDistance: a monotonic distance -> zoom
\* banding function, one zoom less for every doubling of the distance
RECURSIVE ZoomWithin(_, _)
ZoomWithin(d, z) == IF z <= 2 \/ d <= 600 * Pow2(MAX_ATLAS_ZOOM - z) THEN z ELSE ZoomWithin(d, z - 1)
getZoomLevelByDistance(d) == ZoomWithin(d, MAX_ATLAS_ZOOM)

\* utils/zoomLevel.js clampZoom
clampZoom(z, lo, hi) == Max2(lo, Min2(hi, z))

\* pickViewportZoom()
pickViewportZoom(f, c) ==
    IF ~c.autoMaxZoom THEN atlasMaxZoom(c)
    ELSE IF cameraHeightForLod(f) <= 0 THEN atlasMaxZoom(c)
    ELSE Max2(atlasMinZoom(c), Min2(atlasMaxZoom(c), zoomForDepth(cameraHeightForLod(f))))

\* the bands {maxDist, zoom} of the zooms minZ..maxZ.  The bisection of the
\* source converges to the largest distance that still resolves to zoom z;
\* distances are whole metres here
bandsBetween(minZ, maxZ, maxRange, hLod) ==
    LET zoomAt(d) == clampZoom(getZoomLevelByDistance(IF hLod > 0 THEN ISqrt(d * d + hLod * hLod) ELSE d),
                               minZ, maxZ)
        lo(z) == SetMax({d \in 0..maxRange : zoomAt(d) >= z})
        out == {[maxDist |-> maxRange, zoom |-> z] : z \in {k \in minZ..maxZ : zoomAt(maxRange) >= k}}
               \cup {[maxDist |-> lo(z), zoom |-> z] :
                        z \in {k \in minZ..maxZ : zoomAt(0) >= k /\ zoomAt(maxRange) < k /\ lo(k) > 0}}
    IN  IF out # {} THEN out ELSE {[maxDist |-> maxRange, zoom |-> maxZ]}

bandsBelow(maxZ, f, c) ==
    bandsBetween(Max2(atlasMinZoom(c), maxZ - c.maxLevels + 1), maxZ,
                 Max2(1, c.nearMeters), cameraHeightForLod(f))

\* the bands of viewport mode
viewportBands(f, c) == bandsBelow(pickViewportZoom(f, c), f, c)

\* the clamp of a zoom's tile rectangle to maxTilesPerZoom: a square of side
\* floor(sqrt(maxTilesPerZoom)) around the camera tile
clampTileBounds(center, maxTiles, z) ==
    LET size == Max2(1, ISqrt(maxTiles))
        half == size \div 2
        n == Pow2(z)
        cl(v) == Max2(0, Min2(n - 1, v))
        x0 == cl(center.x - half)
        x1 == cl(center.x + half)
        y0 == cl(center.y - half)
        y1 == cl(center.y + half)
        xMin == IF (x1 - x0 + 1) < size THEN cl(x0 - ((size - (x1 - x0 + 1) + 1) \div 2)) ELSE x0
        xMax == IF (x1 - x0 + 1) < size THEN cl(xMin + size - 1) ELSE x1
        yMin == IF (y1 - y0 + 1) < size THEN cl(y0 - ((size - (y1 - y0 + 1) + 1) \div 2)) ELSE y0
        yMax == IF (y1 - y0 + 1) < size THEN cl(yMin + size - 1) ELSE y1
    IN  [xMin |-> xMin, xMax |-> xMax, yMin |-> yMin, yMax |-> yMax]

\* topZoom: the highest band zoom, capped by the zoom of the camera height
viewportTopZoom(bands, f, c) ==
    LET aMin == atlasMinZoom(c)
        aMax == atlasMaxZoom(c)
        topZoomByBands == Max2(aMin, Min2(aMax, SetMax({aMin} \cup {b.zoom : b \in bands})))
        hLod == cameraHeightForLod(f)
    IN  IF c.autoMaxZoom /\ hLod > 0
        THEN Min2(topZoomByBands, Max2(aMin, Min2(aMax, zoomForDepth(hLod))))
        ELSE topZoomByBands

\* a zoom's tile rectangle: _viewportTileBoundsAtZoom, clamped to maxTilesPerZoom
viewportBoundsOf(raw, f, c, z) ==
    IF c.maxTilesPerZoom > 0 /\ tileCount(raw) > Max2(4, c.maxTilesPerZoom)
    THEN clampTileBounds(mercatorToTileXY(threeToMercator(f.x).x, threeToMercator(f.x).y, z),
                         Max2(4, c.maxTilesPerZoom), z)
    ELSE raw

\* rangeByZoom and viewportTileBoundsByZoom of the zooms activeMinZoom..topZoom
viewportSelectIn(bands, topZoom, activeMinZoom, mercBounds, f, c) ==
    LET bandRange(z) == SetMax({0} \cup {Max2(0, b.maxDist) :
                            b \in {bb \in bands : Max2(activeMinZoom, Min2(topZoom, bb.zoom)) = z}})
        maxRange == Max2(1, c.nearMeters)
    IN  [topZoom |-> topZoom,
         activeMinZoom |-> activeMinZoom,
         boundsByZoom |-> [z \in activeMinZoom..topZoom |->
             viewportBoundsOf(viewportTileBoundsAtZoom(mercBounds, z, c.padTiles), f, c, z)],
         rangeByZoom |-> [z \in atlasMinZoom(c)..atlasMaxZoom(c) |->
             IF z < activeMinZoom \/ z > topZoom THEN 0
             ELSE IF bandRange(z) <= 0 THEN maxRange ELSE bandRange(z)]]

\* viewportMercBounds: the ground hits clamped to maxRange around the camera,
\* or, with fewer than three hits, the square of half side maxRange around it
viewportMercBounds(f, c) ==
    IF f.hits < 3 THEN squareAround(f, Max2(1, c.nearMeters))
    ELSE clampToSquare(f, Max2(1, c.nearMeters))

viewportSelectTop(bands, topZoom, f, c) ==
    viewportSelectIn(bands, topZoom, Max2(atlasMinZoom(c), topZoom - c.maxLevels + 1),
                     viewportMercBounds(f, c), f, c)

viewportSelectBands(bands, f, c) == viewportSelectTop(bands, viewportTopZoom(bands, f, c), f, c)

\* everything update() derives in viewport mode before it touches the zoom
\* states: topZoom, activeMinZoom, rangeByZoom, viewportTileBoundsByZoom
viewportSelect(f, c) == viewportSelectBands(viewportBands(f, c), f, c)

\* the loop that drops the zoom levels outside minTileZoom..maxTileZoom, and
\* those without tile bounds and without a range
RECURSIVE dropStaleZooms(_, _, _, _)
dropStaleZooms(S, zs, sel, tiles) ==
    IF zs = {} THEN S
    ELSE LET z == CHOOSE k \in zs : TRUE
             outside == z < sel.activeMinZoom \/ z > sel.topZoom
             hasBounds == z \in DOMAIN sel.boundsByZoom
             rz == IF z \in DOMAIN sel.rangeByZoom THEN sel.rangeByZoom[z] ELSE 0
         IN  dropStaleZooms(IF outside \/ (~hasBounds /\ rz <= 0) THEN DisposeZoom(S, z, tiles) ELSE S,
                            zs \ {z}, sel, tiles)

\* innerRangeByZoom: for each active zoom the largest range of the zooms above
\* it.  The candidate scan consults it only without viewport tile bounds
\* (useViewportMode && !useViewportBounds), which no frame of this model is
innerRangeByZoom(sel) ==
    [z \in sel.activeMinZoom..sel.topZoom |->
        SetMax({0} \cup {sel.rangeByZoom[k] : k \in (z + 1)..sel.topZoom})]

\* the candidates of zoom z: the tiles of its rectangle within range and in the frustum
viewportCandidates(f, z, b, range) ==
    LET cm == threeToMercator(f.x)
        all == TilesIn(b)
        withDist == [i \in DOMAIN all |->
                        Cand(z, all[i].x, all[i].y,
                             distancePointToRect(cm.x, cm.y, tileToMercatorBounds(all[i].x, all[i].y, z)))]
    IN  SelectSeq(withDist, LAMBDA k : k.rectDist <= range /\ isTileVisibleInFrustum(f, k.rectDist))

\* the centre tile of a zoom's grid: the tile under the camera
centerTile(f, z) == mercatorToTileXY(threeToMercator(f.x).x, threeToMercator(f.x).y, z)

\* one pass of the per-zoom loop: a zoom without range or candidates is disposed
viewportZoom(S, z, range, cands, f, c) ==
    IF range <= 0 \/ cands = <<>> THEN DisposeZoom(S, z, f.tiles)
    ELSE Reconcile(S, z, cands, c, "viewport", centerTile(f, z), f.tiles)

\* for (let z = maxTileZoom; z >= minTileZoom; z--) { ... }
RECURSIVE viewportZooms(_, _, _, _, _)
viewportZooms(S, z, sel, f, c) ==
    IF z < sel.activeMinZoom THEN S
    ELSE viewportZooms(viewportZoom(S, z, sel.rangeByZoom[z],
                                    viewportCandidates(f, z, sel.boundsByZoom[z], sel.rangeByZoom[z]),
                                    f, c),
                       z - 1, sel, f, c)

\* _setUniforms(!skipTileLoad) at the end of update()
withUniforms(S, c) ==
    [S EXCEPT !.uni = setUniforms(S.uni, S.byZoom, ~c.skipTileLoad, c.smoothness), !.published = TRUE]

\* variant: the uniforms are published before the per-zoom loop
updateViewportPublishesFirst(S, sel, f, c) ==
    viewportZooms(withUniforms(dropStaleZooms(S, DOMAIN S.byZoom, sel, f.tiles), c), sel.topZoom, sel, f, c)

updateViewportWith(S, sel, f, c) ==
    withUniforms(viewportZooms(dropStaleZooms(S, DOMAIN S.byZoom, sel, f.tiles), sel.topZoom, sel, f, c), c)

\* the viewport branch of update() from the zoom bounds to _setUniforms
updateViewport(S, f, c) == updateViewportWith(S, viewportSelect(f, c), f, c)

---------------------------------------------------------------------------
(* update(), LOD mode 'trapezoid' *)

\* downTiltDeg: a camera whose viewport rays reach the ground looks straight
\* down, one whose rays miss it looks along the horizon
downTiltDeg(f) == IF f.hits = 0 THEN 0 ELSE 90
tiltFromVerticalDeg(f) == clamp(90 - downTiltDeg(f), 0, 90)

\* the depth topZoomByView uses: the distance to the centre ray's hit, else
\* cameraHeight / sin(max(1, downTiltDeg)); 1 / sin(1 degree) is 57.3
viewDepth(f) ==
    IF f.hits > 0 /\ cameraHeight(f) > 0 THEN cameraHeight(f)
    ELSE (cameraHeight(f) * 573) \div 10

\* maxRangeMeters: the shallow-view cap from a tilt of 60 degrees on
maxRangeMeters(f, c) ==
    IF tiltFromVerticalDeg(f) >= 60
    THEN (IF c.shallowMaxMeters > 0 THEN Max2(100, c.shallowMaxMeters) ELSE 5000)
    ELSE Max2(1, c.nearMeters)

\* topZoom: the configured top zoom, capped by the zoom of the view depth
trapezoidTopZoom(f, c) ==
    LET aMin == atlasMinZoom(c)
        aMax == atlasMaxZoom(c)
        topZoomCfg == clamp(aMax, aMin, aMax)
    IN  IF c.autoMaxZoom /\ viewDepth(f) > 0
        THEN Min2(topZoomCfg, clamp(zoomForDepth(viewDepth(f)), aMin, aMax))
        ELSE topZoomCfg

\* minZoom: the base zoom, at most three levels under topZoom
trapezoidMinZoom(topZoom, c) ==
    LET minZoom0 == clamp(c.baseZoom, atlasMinZoom(c), topZoom)
        minZoomSlots == Max2(atlasMinZoom(c), topZoom - 3)
    IN  IF minZoom0 < minZoomSlots THEN minZoomSlots ELSE minZoom0

\* viewportMercBounds of trapezoid mode: the ground hits clamped to
\* maxRangeMeters around the camera, or, with fewer than two hits, the square
\* of half side maxRangeMeters around it
trapezoidMercBounds(f, r) == IF f.hits < 2 THEN squareAround(f, r) ELSE clampToSquare(f, r)

trapezoidSelectIn(topZoom, minZoom, r, f, c) ==
    [topZoom |-> topZoom, minZoom |-> minZoom, maxRangeMeters |-> r,
     tileBounds |-> viewportTileBoundsAtZoom(trapezoidMercBounds(f, r), minZoom, c.padTiles)]

trapezoidSelectTop(topZoom, f, c) ==
    trapezoidSelectIn(topZoom, trapezoidMinZoom(topZoom, c), maxRangeMeters(f, c), f, c)

\* topZoom, minZoom, maxRangeMeters and viewportTileBounds of trapezoid mode
trapezoidSelect(f, c) == trapezoidSelectTop(trapezoidTopZoom(f, c), f, c)

\* variant: the zoom of the distance is not clamped
desiredZoomUnclamped(d, minZoom, topZoom) == zoomForDepth(Max2(1, d))
\* desiredZoomForDistance(distMeters)
desiredZoomForDistance(d, minZoom, topZoom) == clamp(zoomForDepth(Max2(1, d)), minZoom, topZoom)

\* the distance of the camera's ground point to a tile
rectDistOf(f, x, y, z) ==
    distancePointToRect(threeToMercator(f.x).x, threeToMercator(f.x).y, tileToMercatorBounds(x, y, z))

\* the four children of a tile, in push order
childrenOf(t) ==
    << [tileX |-> t.tileX * 2, tileY |-> t.tileY * 2, z |-> t.z + 1],
       [tileX |-> t.tileX * 2 + 1, tileY |-> t.tileY * 2, z |-> t.z + 1],
       [tileX |-> t.tileX * 2, tileY |-> t.tileY * 2 + 1, z |-> t.z + 1],
       [tileX |-> t.tileX * 2 + 1, tileY |-> t.tileY * 2 + 1, z |-> t.z + 1] >>

\* what the loop does with the popped node t: "cull", "refine" or "leaf"
refineStep(t, rectDist, nLeaves, sel, f, c) ==
    LET maxLeafTiles == IF c.lodMaxTiles > 0 THEN Max2(16, c.lodMaxTiles) ELSE 4096
        visible == isTileVisibleInFrustum(f, rectDist)
        dist3D == ISqrt(rectDist * rectDist + cameraHeight(f) * cameraHeight(f))
        desiredZ == IF visible THEN desiredZoomForDistance(dist3D, sel.minZoom, sel.topZoom) ELSE t.z
    IN  IF ~visible /\ t.z > sel.minZoom THEN "cull"
        ELSE IF rectDist > sel.maxRangeMeters THEN "cull"
        ELSE IF t.z < sel.topZoom /\ desiredZ > t.z /\ nLeaves < maxLeafTiles THEN "refine"
        ELSE "leaf"

\* maxWork
maxWork(c) == IF c.lodMaxWork > 0 THEN Max2(64, c.lodMaxWork) ELSE 200000

\* variant: a refined node is kept as a leaf beside its children
refineOnceKeepsParent(stack, leaves, work, sel, f, c) ==
    LET t == stack[Len(stack)]
        rest == SubSeq(stack, 1, Len(stack) - 1)
        rectDist == rectDistOf(f, t.tileX, t.tileY, t.z)
        step == refineStep(t, rectDist, Len(leaves), sel, f, c)
    IN  [stack |-> IF step = "refine" THEN rest \o childrenOf(t) ELSE rest,
         leaves |-> IF step \in {"leaf", "refine"}
                    THEN Append(leaves, Cand(t.z, t.tileX, t.tileY, rectDist)) ELSE leaves,
         work |-> work + 1]

\* one iteration of the refinement loop: pop a node, cull it, refine it into
\* its four children or accept it as a leaf
refineOnce(stack, leaves, work, sel, f, c) ==
    LET t == stack[Len(stack)]
        rest == SubSeq(stack, 1, Len(stack) - 1)
        rectDist == rectDistOf(f, t.tileX, t.tileY, t.z)
        step == refineStep(t, rectDist, Len(leaves), sel, f, c)
    IN  [stack |-> IF step = "refine" THEN rest \o childrenOf(t) ELSE rest,
         leaves |-> IF step = "leaf" THEN Append(leaves, Cand(t.z, t.tileX, t.tileY, rectDist)) ELSE leaves,
         work |-> work + 1]

\* the refinement loop: iterations until the stack is empty or maxWork pops
\* are done
RECURSIVE refine(_, _, _, _, _, _)
refine(stack, leaves, work, sel, f, c) ==
    IF stack = <<>> \/ work >= maxWork(c)
    THEN [leaves |-> leaves, stack |-> stack, work |-> work]
    ELSE LET n == refineOnce(stack, leaves, work, sel, f, c)
         IN  refine(n.stack, n.leaves, n.work, sel, f, c)

\* variant: the nodes a capped loop left on the stack are dropped
tilesOfLeaves(r, f) == r.leaves
\* tilesByZoom: the leaves, then the nodes a capped loop left on the stack
tilesOf(r, f) ==
    r.leaves \o [i \in DOMAIN r.stack |->
                    Cand(r.stack[i].z, r.stack[i].tileX, r.stack[i].tileY,
                         rectDistOf(f, r.stack[i].tileX, r.stack[i].tileY, r.stack[i].z))]

rootsOf(start, z) == [i \in DOMAIN start |-> [tileX |-> start[i].x, tileY |-> start[i].y, z |-> z]]

trapezoidTiles(sel, f, c) ==
    tilesOf(refine(rootsOf(TilesIn(sel.tileBounds), sel.minZoom), <<>>, 0, sel, f, c), f)

\* the loop that disposes the zoom levels outside zoomLevels
RECURSIVE dropZoomsOutside(_, _, _, _)
dropZoomsOutside(S, zs, sel, tiles) ==
    IF zs = {} THEN S
    ELSE LET z == CHOOSE k \in zs : TRUE
         IN  dropZoomsOutside(IF z \in sel.minZoom..sel.topZoom THEN S ELSE DisposeZoom(S, z, tiles),
                              zs \ {z}, sel, tiles)

\* one pass of the per-zoom loop: a zoom without tiles is disposed
trapezoidZoom(S, z, cands, f, c) ==
    IF cands = <<>> THEN DisposeZoom(S, z, f.tiles)
    ELSE Reconcile(S, z, cands, c, "trapezoid", centerTile(f, z), f.tiles)

\* for (const z of zoomLevels) { ... }
RECURSIVE trapezoidZooms(_, _, _, _, _, _)
trapezoidZooms(S, z, all, sel, f, c) ==
    IF z < sel.minZoom THEN S
    ELSE trapezoidZooms(trapezoidZoom(S, z, SelectSeq(all, LAMBDA k : KeyZ(k.key) = z), f, c),
                        z - 1, all, sel, f, c)

updateTrapezoidWith(S, sel, f, c) ==
    withUniforms(trapezoidZooms(dropZoomsOutside(S, DOMAIN S.byZoom, sel, f.tiles), sel.topZoom,
                                trapezoidTiles(sel, f, c), sel, f, c), c)

\* the trapezoid branch of update() from the zoom bounds to _setUniforms
updateTrapezoid(S, f, c) == updateTrapezoidWith(S, trapezoidSelect(f, c), f, c)

---------------------------------------------------------------------------
(* update(camera) *)

\* what a call leaves for the observer: the call, the camera it was given, the
\* gate it returned through, how the camera moved against the debounce
\* thresholds, the promises it issued; ranAt is the clock of the latest tile
\* selection; recreated is the tiles whose fetch was in flight while the call
\* replaced the state of their zoom by one in whose grid they have another
\* cell; work is "after" when the call allocated a render target or ran a
\* composite pass after its _setUniforms, else "before" when it did either
Obs(prev, op, gate, moved, f, issued, t) ==
    [op |-> op, gate |-> gate, moved |-> moved, proj |-> f.proj, hits |-> f.hits,
     issued |-> issued, key |-> <<>>, stale |-> FALSE, wrote |-> FALSE,
     ranAt |-> IF gate = "ran" THEN t ELSE prev.ranAt, camera |-> f, recreated |-> {},
     work |-> "none"]

\* curView against atlas.lastView: "first" without a lastView, "over" when the
\* planar move, the height change or the rotation exceeds its threshold
movement(a, f, c) ==
    IF a.lastView = NoView THEN "first"
    ELSE LET lv == a.lastView[1]
             planar == IF f.proj = "nan" \/ lv.nan THEN FALSE ELSE Abs(f.x - lv.x) > c.moveMeters
         IN  IF planar \/ Abs(f.h - lv.h) > c.heightMeters \/ Abs(f.rot - lv.rot) > c.angleDeg
             THEN "over" ELSE "under"

\* variant: every call after the first counts as a movement
debouncedByAnyCall(a, f, t, c) ==
    IF c.debounceMs > 0
    THEN [a EXCEPT !.lastView = << [x |-> f.x, h |-> f.h, rot |-> f.rot, nan |-> f.proj = "nan"] >>,
                   !.lastMoveAt = IF movement(a, f, c) # "first" THEN t ELSE @]
    ELSE a
\* variant: no call counts as a movement
debouncedByNoCall(a, f, t, c) ==
    IF c.debounceMs > 0
    THEN [a EXCEPT !.lastView = << [x |-> f.x, h |-> f.h, rot |-> f.rot, nan |-> f.proj = "nan"] >>]
    ELSE a
\* the debounce block: atlas.lastView and atlas.lastMoveAt after it
debounced(a, f, t, c) ==
    IF c.debounceMs > 0
    THEN [a EXCEPT !.lastView = << [x |-> f.x, h |-> f.h, rot |-> f.rot, nan |-> f.proj = "nan"] >>,
                   !.lastMoveAt = IF movement(a, f, c) = "over" THEN t ELSE @]
    ELSE a

\* the program state after the tile selection left the threaded state S1
recomputed(W, a, S1) ==
    [atlas |-> [a EXCEPT !.byZoom = S1.byZoom, !.pending = S1.pending],
     retired |-> W.retired, fetches |-> S1.fetches, pins |-> S1.pins,
     rtLive |-> S1.rtLive, uni |-> S1.uni, mat |-> W.mat, work |-> S1.work]

\* the state the tile selection threads through its loops
threaded(W, a) ==
    [byZoom |-> a.byZoom, pending |-> a.pending, pins |-> W.pins, fetches |-> W.fetches,
     calls |-> 0, rtLive |-> W.rtLive, uni |-> W.uni, published |-> FALSE, work |-> "none"]

\* the tile selection and reconciliation of the configured LOD mode
recompute(W, a, f, c) ==
    recomputed(W, a, IF c.mode = "trapezoid" THEN updateTrapezoid(threaded(W, a), f, c)
                     ELSE updateViewport(threaded(W, a), f, c))

\* the tiles with a fetch in flight over a call from W to W3 that are desired
\* in W3 and whose cell in the grid of W3 is not their cell in the grid of W
RecreatedInFlight(W, W3) ==
    {p.key : p \in {q \in W.fetches \cap W3.fetches :
                    LET z == KeyZ(q.key)
                    IN  /\ q.at = 0
                        /\ z \in DOMAIN W.atlas.byZoom \cap DOMAIN W3.atlas.byZoom
                        /\ q.key \in W3.atlas.byZoom[z].activeKeys
                        /\ InGrid(W.atlas.byZoom[z].grid, KeyX(q.key), KeyY(q.key))
                        /\ CellIdx(W.atlas.byZoom[z].grid, KeyX(q.key), KeyY(q.key))
                              # CellIdx(W3.atlas.byZoom[z].grid, KeyX(q.key), KeyY(q.key))}}

\* a call that ran the tile selection: the state W3 it left and the promises it issued
ran(W, W3, prev, moved, f, t) ==
    [W |-> W3,
     obs |-> [Obs(prev, "update", "ran", moved, f, {k.key : k \in W3.fetches \ W.fetches}, t)
                EXCEPT !.recreated = RecreatedInFlight(W, W3), !.work = W3.work]]

\* update(camera) at clock t on the program state W: the new state and the observation
update(W, f, t, c, prev) ==
    LET a0 == W.atlas
        cleared == IF DOMAIN a0.byZoom # {} THEN clear(W, f.tiles) ELSE W
        a1 == debounced(a0, f, t, c)
        moved == IF c.debounceMs > 0 THEN movement(a0, f, c) ELSE "off"
    IN  IF ~f.enabled
        THEN [W |-> disableOnAllMaterials(cleared),
              obs |-> Obs(prev, "update", "disabled", "off", f, {}, t)]
        ELSE IF c.enableBelowOrEqualHeight > 0 /\ cameraHeight(f) > c.enableBelowOrEqualHeight
        THEN [W |-> cleared, obs |-> Obs(prev, "update", "height", "off", f, {}, t)]
        ELSE IF c.debounceMs > 0 /\ a1.lastMoveAt # NoTime /\ (t - a1.lastMoveAt) < c.debounceMs
        THEN [W |-> [W EXCEPT !.atlas = a1], obs |-> Obs(prev, "update", "debounce", moved, f, {}, t)]
        ELSE IF (t - a1.lastUpdate) < c.updateMs
        THEN [W |-> [W EXCEPT !.atlas = a1], obs |-> Obs(prev, "update", "throttle", moved, f, {}, t)]
        ELSE IF ~camMercValid(f)
        THEN [W |-> [W EXCEPT !.atlas = [a1 EXCEPT !.lastUpdate = t]],
              obs |-> Obs(prev, "update", "invalid", moved, f, {}, t)]
        ELSE ran(W, recompute(W, [a1 EXCEPT !.lastUpdate = t], f, c), prev, moved, f, t)

---------------------------------------------------------------------------
(* The completion handlers of a promise of getTileTexture *)

\* the this._state object the closure of promise p captured
tableOf(W, p) == IF p.at = 0 THEN W.atlas ELSE W.retired[p.at]

\* _getCellSizeFromTexture(tex) for a square image of side w
getCellSizeFromTexture(w) == Max2(64, Min2(2048, w))

\* variant: the completion discards the texture
thenHandlerDiscards(T, key, w, c) == T

\* variant: the completion binds the texture to the first cell of the grid
thenHandlerFirstCell(T, key, w, c) ==
    LET z == KeyZ(key)
        has == z \in DOMAIN T.byZoom
        st == T.byZoom[z]
        st1 == [st EXCEPT !.textures = @ \cup {key}]
        st2 == [st1 EXCEPT !.cells[0] = key, !.dirty = TRUE]
    IN  IF has /\ key \in st.activeKeys
        THEN [T EXCEPT !.byZoom = MapSet(@, z, st2)]
        ELSE T

\* .then((tex) => { ... }) on the captured table T
thenHandler(T, key, w, c) ==
    LET z == KeyZ(key)
        has == z \in DOMAIN T.byZoom
        actual == getCellSizeFromTexture(w)
        pendingNow == IF z \in DOMAIN T.pending THEN T.pending[z] ELSE 0
        currentCell == IF has THEN T.byZoom[z].cellSize ELSE DefaultTileSize
        T1 == IF ~hasCellSizeOverride(c, z) /\ pendingNow # actual /\ actual # currentCell
              THEN [T EXCEPT !.pending = MapSet(@, z, actual)] ELSE T
        st == T.byZoom[z]
        idx == CellIdx(st.grid, KeyX(key), KeyY(key))
        st1 == [st EXCEPT !.textures = @ \cup {key}]
        st2 == IF InGrid(st.grid, KeyX(key), KeyY(key))
               THEN [st1 EXCEPT !.cells[idx] = key, !.dirty = TRUE] ELSE st1
    IN  IF has /\ key \in st.activeKeys
        THEN [T1 EXCEPT !.byZoom = MapSet(@, z, st2)]
        ELSE T1

\* variant: the in-flight entry of a settled promise stays
finallyHandlerKeeps(T, key) == T
\* .finally(() => atlas.byZoom.get(z)?.loads?.delete?.(c.key))
finallyHandler(T, key) ==
    LET z == KeyZ(key)
    IN  IF z \in DOMAIN T.byZoom
        THEN [T EXCEPT !.byZoom = MapSet(@, z, [T.byZoom[z] EXCEPT !.loads = @ \ {key}])]
        ELSE T

\* the program state with the captured table of p replaced by T and p settled
settle(W, p, T) ==
    LET W1 == IF p.at = 0 THEN [W EXCEPT !.atlas = T] ELSE [W EXCEPT !.retired[p.at] = T]
        col == Collect(W1.retired, W1.fetches \ {p}, 1)
    IN  [W1 EXCEPT !.retired = col.retired, !.fetches = col.fetches]

---------------------------------------------------------------------------
(* Configurations and frames *)

\* terrain.config of the shipped index.js, with the zoom span, the radius and
\* the height gate scaled to a world of a few tiles
BaseConfig ==
    [mode |-> "viewport", minZoom |-> 17, maxZoom |-> 18, maxLevels |-> 4, autoMaxZoom |-> TRUE,
     nearMeters |-> 4, padTiles |-> 0, maxTilesPerZoom |-> 200, baseZoom |-> 6,
     shallowMaxMeters |-> 100, lodMaxTiles |-> 0, lodMaxWork |-> 0,
     mipmaps |-> FALSE, smoothness |-> 0, skipTileLoad |-> FALSE,
     cellSizeByZoom |-> [z \in 17..18 |-> 256],
     enableBelowOrEqualHeight |-> 2000,
     updateMs |-> 0, debounceMs |-> 0, moveMeters |-> 15, heightMeters |-> 20, angleDeg |-> 15]

\* a frame: camera x, height and heading, the ground hits of the viewport
\* rays and their half width, the frustum, the projection, the tile source
Frame(x, h, rot, hits, quad, vis, proj, tiles, enabled) ==
    [x |-> x, h |-> h, rot |-> rot, hits |-> hits, quad |-> quad, vis |-> vis,
     proj |-> proj, tiles |-> tiles, enabled |-> enabled]

TileFrames ==
    {Frame(12, 500, 0, 4, 2, "all", "ok", TRUE, TRUE),
     Frame(20, 500, 0, 4, 2, "all", "ok", TRUE, TRUE),
     Frame(12, 1500, 0, 4, 2, "all", "ok", TRUE, TRUE),
     Frame(12, 500, 0, 4, 2, "none", "ok", TRUE, TRUE),
     Frame(12, 500, 0, 0, 0, "all", "ok", TRUE, TRUE),
     Frame(12, 500, 0, 4, 2, "all", "missing", TRUE, TRUE),
     Frame(12, 2500, 0, 4, 2, "all", "missing", TRUE, TRUE),
     Frame(12, 500, 0, 4, 2, "all", "missing", TRUE, FALSE)}

\* a camera that flies 10 m and 20 m steps and turns by 2 degrees over a world
\* without a tile source
GateFrames ==
    {Frame(0, 500, 0, 4, 2, "all", "ok", FALSE, TRUE),
     Frame(10, 500, 0, 4, 2, "all", "ok", FALSE, TRUE),
     Frame(30, 500, 0, 4, 2, "all", "ok", FALSE, TRUE),
     Frame(30, 500, 20, 4, 2, "all", "ok", FALSE, TRUE)}

\* a camera 500 m above one spot whose viewport rays reach the ground 2 m,
\* 155 m and 160 m around it: one tile, 3 x 3 tiles and 4 x 3 tiles of zoom
\* 18; and a camera above the height gate
LayoutFrames ==
    {Frame(12, 500, 0, 4, 2, "all", "ok", FALSE, TRUE),
     Frame(12, 500, 0, 4, 155, "all", "ok", FALSE, TRUE),
     Frame(12, 500, 0, 4, 160, "all", "ok", FALSE, TRUE),
     Frame(12, 2500, 0, 4, 2, "all", "ok", FALSE, TRUE)}

\* cameras whose centre ray reaches the ground 500 m, 2500 m and 5000 m away
DepthFrames ==
    {Frame(12, h, 0, 4, 2, "all", "ok", FALSE, TRUE) : h \in {500, 2500, 5000}}

\* a camera over a tile source whose viewport rays reach the ground 2 m or
\* 155 m around it (one tile or 3 x 3 tiles of zoom 18), one whose frustum
\* holds no tile, and one whose position has no projection
FetchFrames ==
    {Frame(12, 500, 0, 4, 2, "all", "ok", TRUE, TRUE),
     Frame(12, 500, 0, 4, 155, "all", "ok", TRUE, TRUE),
     Frame(12, 500, 0, 4, 2, "none", "ok", TRUE, TRUE),
     Frame(12, 500, 0, 4, 2, "all", "missing", TRUE, TRUE)}

\* cameras 100 m and 500 m above two spots whose viewport rays reach the
\* ground 155 m or 700 m around them, with every tile, only the tile under
\* the camera, or no tile inside the frustum
RefineFrames ==
    {Frame(x, h, 0, 4, q, vis, "ok", FALSE, TRUE) :
        x \in {12, 320}, h \in {100, 500}, q \in {155, 700}, vis \in {"all", "cam", "none"}}

\* the frames a host of kind env.frames delivers
\* a camera that stays where it is: over one tile, over two tiles, or at a
\* position that has no projection
HeldNames == {"held-one", "held-many", "held-missing"}

HeldFrame(kind) ==
    IF kind = "held-one" THEN Frame(12, 500, 0, 4, 2, "all", "ok", TRUE, TRUE)
    ELSE IF kind = "held-many" THEN Frame(12, 500, 0, 4, 20, "all", "ok", TRUE, TRUE)
    ELSE Frame(12, 500, 0, 4, 2, "all", "missing", TRUE, TRUE)

\* a camera over one tile, or with no tile in its frustum, while the terrain
\* has no tile source and while it has one
SourceFrames ==
    {Frame(12, 500, 0, 4, 2, vis, "ok", tiles, TRUE) : vis \in {"all", "none"}, tiles \in BOOLEAN}

\* the frames of a camera before it is held
LiveFrames == {HeldFrame("held-one"), HeldFrame("held-many")}

FramesOf(kind) ==
    IF kind \in HeldNames THEN {HeldFrame(kind)}
    ELSE IF kind = "live" THEN LiveFrames
    ELSE IF kind = "source" THEN SourceFrames
    ELSE IF kind = "tiles" THEN TileFrames
    ELSE IF kind = "refine" THEN RefineFrames
    ELSE IF kind = "fetch" THEN FetchFrames
    ELSE IF kind = "layout" THEN LayoutFrames
    ELSE IF kind = "depth" THEN DepthFrames
    ELSE GateFrames

TileScenarios ==
    {[cfg |-> [BaseConfig EXCEPT !.mode = m],
      env |-> [frames |-> "tiles", dts |-> {0}, texSizes |-> {256}, tileSrc |-> {TRUE}]] :
        m \in {"viewport", "trapezoid"}}

\* the shipped throttle and debounce (250 ms, 150 ms), and a throttle shorter
\* than the debounce interval; the clock advances between the calls
GateScenarios ==
    {[cfg |-> [BaseConfig EXCEPT !.updateMs = u, !.debounceMs = 150],
      env |-> [frames |-> "gate", dts |-> {50, 100, 250}, texSizes |-> {256}, tileSrc |-> {FALSE}]] :
        u \in {250, 100}}

\* hosts with a tile source and the shipped throttle of 250 ms, whose clock
\* stands or advances by the throttle interval between the calls: one zoom
\* level in either LOD mode, textures of 256 and 512 pixels, with and without
\* a configured cell size
FetchScenarios ==
    {[cfg |-> [BaseConfig EXCEPT !.mode = m, !.minZoom = 18, !.nearMeters = 1000, !.updateMs = 250,
                                 !.cellSizeByZoom = ov],
      env |-> [frames |-> "fetch", dts |-> {0, 250}, texSizes |-> {256, 512}, tileSrc |-> {TRUE}]] :
        m \in {"viewport", "trapezoid"}, ov \in {NoMap, [z \in 17..18 |-> 256]}}

\* hosts whose terrain gets its tile source late, or loses it, in either LOD mode
SourceScenarios ==
    {[cfg |-> [BaseConfig EXCEPT !.mode = m, !.minZoom = 18, !.nearMeters = 1000],
      env |-> [frames |-> "source", dts |-> {0}, texSizes |-> {256}, tileSrc |-> BOOLEAN]] :
        m \in {"viewport", "trapezoid"}}

\* a host whose clock advances by 250 ms between calls, under a throttle of
\* 500 ms, with and without the debounce gate, with tile loading on or off
LiveScenarios ==
    {[cfg |-> [BaseConfig EXCEPT !.mode = m, !.minZoom = 18, !.nearMeters = 1000, !.updateMs = 500,
                                 !.debounceMs = db, !.skipTileLoad = skip, !.cellSizeByZoom = NoMap],
      env |-> [frames |-> "live", dts |-> {250}, texSizes |-> {256, 512}, tileSrc |-> {TRUE}]] :
        m \in {"viewport", "trapezoid"}, db \in {0, 250}, skip \in {FALSE, TRUE}}

\* trapezoid mode over the zooms 15 to 18: the work cap unset (200000) or at
\* its smallest value (64), the leaf cap unset (4096) or at its smallest
\* value (16), ranges of 1000 m and 3000 m, the tile bounds of the view as
\* they are or padded by a ring of one tile (the default)
RefineScenarios ==
    {[cfg |-> [BaseConfig EXCEPT !.mode = "trapezoid", !.minZoom = 5, !.maxZoom = 18,
                                 !.nearMeters = near, !.lodMaxWork = work, !.lodMaxTiles = leafCap,
                                 !.padTiles = pad],
      env |-> [frames |-> "refine", dts |-> {0}, texSizes |-> {256}, tileSrc |-> {FALSE}]] :
        near \in {1000, 3000}, work \in {0, 64}, leafCap \in {0, 16}, pad \in {0, 1}}

\* hosts whose per-zoom tile cap is 4, 6 or 9 tiles: one zoom level in either
\* LOD mode, with and without mipmaps
CapScenarios ==
    {[cfg |-> [BaseConfig EXCEPT !.mode = m, !.minZoom = 18, !.nearMeters = 1000, !.mipmaps = mip,
                                 !.maxTilesPerZoom = cap],
      env |-> [frames |-> "layout", dts |-> {0}, texSizes |-> {256}, tileSrc |-> {FALSE}]] :
        m \in {"viewport", "trapezoid"}, mip \in BOOLEAN, cap \in {4, 6, 9}}

\* the hosts of the atlas layout, without a tile source: one zoom level in
\* either LOD mode, with and without mipmaps, with cells of 256 and 2048
\* pixels; two zoom levels with distance bands; five zoom levels
LayoutEnv == [frames |-> "layout", dts |-> {0}, texSizes |-> {256}, tileSrc |-> {FALSE}]

GridScenarios ==
    {[cfg |-> [BaseConfig EXCEPT !.mode = m, !.minZoom = 18, !.nearMeters = 1000, !.mipmaps = mip,
                                 !.cellSizeByZoom = [z \in 17..18 |-> cell]],
      env |-> LayoutEnv] :
        m \in {"viewport", "trapezoid"}, mip \in BOOLEAN, cell \in {256, 2048}}

BandScenarios ==
    {[cfg |-> [BaseConfig EXCEPT !.nearMeters = 1000], env |-> LayoutEnv],
     [cfg |-> [BaseConfig EXCEPT !.minZoom = 14, !.maxLevels = 5, !.nearMeters = 300],
      env |-> LayoutEnv]}

LayoutScenarios == GridScenarios \cup BandScenarios

\* trapezoid mode over the shipped zoom span and over narrower ones
DepthScenarios ==
    {[cfg |-> [BaseConfig EXCEPT !.mode = "trapezoid", !.minZoom = lo, !.maxZoom = hi, !.autoMaxZoom = auto],
      env |-> [frames |-> "depth", dts |-> {0}, texSizes |-> {256}, tileSrc |-> {FALSE}]] :
        lo \in {5, 13}, hi \in {14, 18}, auto \in BOOLEAN}

\* the distances desiredZoomForDistance is asked about, in metres
Distances == {0 - 5, 0, 1, 100, 373, 500, 745, 746, 1000, 2979, 2980, 5000, 5957, 5958, 11916,
              50000, 1000000, 200000000}

---------------------------------------------------------------------------
(* The state machine *)

\* no camera: what an observation of a call other than update() carries
NoCamera == Frame(0, 0, 0, 0, 0, "all", "ok", FALSE, FALSE)

NoObs ==
    [op |-> "new", gate |-> "none", moved |-> "off", proj |-> "ok", hits |-> 0,
     issued |-> {}, key |-> <<>>, stale |-> FALSE, wrote |-> FALSE, ranAt |-> NoTime,
     camera |-> NoCamera, recreated |-> {}, work |-> "none"]

\* no refinement loop is observed
NoLoop == [pc |-> "none"]

\* the program state as one record, and back
World == [atlas |-> atlas, retired |-> retired, fetches |-> fetches, pins |-> pinNet,
          rtLive |-> rtLive, uni |-> uniforms, mat |-> material]

Becomes(W) ==
    /\ atlas' = W.atlas
    /\ retired' = W.retired
    /\ fetches' = W.fetches
    /\ pinNet' = W.pins
    /\ rtLive' = W.rtLive
    /\ uniforms' = W.uni
    /\ material' = W.mat

InitWith(scenarios) ==
    /\ \E sc \in scenarios : cfg = sc.cfg /\ env = sc.env
    /\ atlas = NewAtlasState
    /\ retired = <<>>
    /\ fetches = {}
    /\ pinNet = NoMap
    /\ uniforms = NoUniforms
    /\ material = TerrainMaterial
    /\ refining = NoLoop
    /\ rtLive = 0
    /\ now = 0
    /\ overlay = NewOverlay
    /\ last = NoObs

Init == InitWith(TileScenarios)

\* the program state W becomes the next state, without the replaced state
\* objects no closure holds
Commit(W, col) ==
    /\ Len(col.retired) <= MaxRetired
    /\ Cardinality(col.fetches) <= MaxInFlight
    /\ Becomes([W EXCEPT !.retired = col.retired, !.fetches = col.fetches])

Called(r) ==
    /\ Commit(r.W, Collect(r.W.retired, r.W.fetches, 1))
    /\ last' = r.obs

\* the host calls update(camera) dt after the previous call
Update ==
    \E f \in FramesOf(env.frames), dt \in env.dts :
        /\ now + dt <= MaxTime
        /\ Called(update(World, f, now + dt, cfg, last))
        /\ now' = now + dt
        /\ UNCHANGED <<refining, cfg, env, overlay>>

Cleared(W1) == Commit(W1, Collect(W1.retired, W1.fetches, 1))

\* the host calls clear()
Clear ==
    \E tiles \in env.tileSrc :
        /\ Cleared(clear(World, tiles))
        /\ last' = [NoObs EXCEPT !.op = "clear", !.ranAt = last.ranAt,
                                  !.gate = IF last.op = "clear" THEN "repeat" ELSE "none"]
        /\ UNCHANGED <<refining, cfg, env, now, overlay>>

\* a promise is fulfilled with a texture of side w: then, finally
FetchResolve ==
    \E p \in fetches, w \in env.texSizes :
        LET T == tableOf(World, p)
            z == KeyZ(p.key)
            stale == p.at # 0 \/ z \notin DOMAIN T.byZoom \/ p.key \notin T.byZoom[z].activeKeys
            T1 == thenHandler(T, p.key, w, cfg)
        IN  /\ Becomes(settle(World, p, finallyHandler(T1, p.key)))
            /\ last' = [NoObs EXCEPT !.op = "resolve", !.key = p.key, !.stale = stale,
                                      !.wrote = (T1.byZoom # T.byZoom), !.ranAt = last.ranAt,
                                      !.recreated = IF last.op = "update" THEN last.recreated \cap {p.key}
                                                    ELSE {}]
            /\ UNCHANGED <<refining, cfg, env, now, overlay>>

\* a promise is rejected: catch, finally
FetchReject ==
    \E p \in fetches :
        LET T == tableOf(World, p)
            z == KeyZ(p.key)
            stale == p.at # 0 \/ z \notin DOMAIN T.byZoom \/ p.key \notin T.byZoom[z].activeKeys
        IN  /\ Becomes(settle(World, p, finallyHandler(T, p.key)))
            /\ last' = [NoObs EXCEPT !.op = "reject", !.key = p.key, !.stale = stale,
                                      !.ranAt = last.ranAt]
            /\ UNCHANGED <<refining, cfg, env, now, overlay>>

\* installOnMaterial(material) under an enabled configuration, and the first
\* compile of the material, which creates the atlas uniforms with their defaults
InstallOnMaterial ==
    /\ ~uniforms.present
    /\ material' = installOnMaterial(material, TRUE, shaderVersion)
    /\ uniforms' = IF InjectsAtlas(material') THEN [NoUniforms EXCEPT !.present = TRUE] ELSE uniforms
    /\ last' = [NoObs EXCEPT !.op = "install", !.ranAt = last.ranAt]
    /\ UNCHANGED <<refining, cfg, env, atlas, retired, fetches, pinNet, rtLive, now, overlay>>

Next == Update \/ Clear \/ FetchResolve \/ FetchReject \/ InstallOnMaterial

Spec == Init /\ [][Next]_vars

\* the debounce gate and the throttle on a clock that advances
InitGate == InitWith(GateScenarios)

NextGate == Update \/ Clear

SpecGate == InitGate /\ [][NextGate]_vars

\* update() and the completions of the fetches it issued, under the throttle
InitFetch == InitWith(FetchScenarios)

NextFetch == Update \/ FetchResolve \/ FetchReject

SpecFetch == InitFetch /\ [][NextFetch]_vars

\* update() under a small per-zoom tile cap
InitCap == InitWith(CapScenarios)

NextCap == Update \/ Clear

SpecCap == InitCap /\ [][NextCap]_vars

\* a grid no update() of the layout hosts asks for
OtherGrid == [originX |-> 90, originY |-> 40, gridSize |-> 2]

\* _ensureZoomState(z, grid, cellSizePx) called on its own for a live zoom or
\* for zoom 18: with the grid and the cell size the zoom has, or with others
EnsureZoomState ==
    \E z \in DOMAIN atlas.byZoom \cup {MAX_ATLAS_ZOOM} :
        \E grid \in {OtherGrid} \cup {atlas.byZoom[k].grid : k \in DOMAIN atlas.byZoom \cap {z}},
           cell \in {512} \cup {atlas.byZoom[k].cellSize : k \in DOMAIN atlas.byZoom \cap {z}} :
            /\ Becomes(recomputed(World, atlas, ensureZoomState(threaded(World, atlas), z, grid, cell)))
            /\ last' = [zoom |-> z] @@
                        [NoObs EXCEPT !.op = "ensure", !.ranAt = last.ranAt,
                            !.gate = IF z \in DOMAIN atlas.byZoom /\ atlas.byZoom[z].grid = grid
                                        /\ atlas.byZoom[z].cellSize = cell
                                     THEN "same" ELSE "changed"]
            /\ UNCHANGED <<refining, cfg, env, now, overlay>>

\* update() and direct calls of _ensureZoomState
NextEnsure == Update \/ EnsureZoomState

\* the layout hosts of at most two zoom levels
InitEnsure == InitWith({sc \in LayoutScenarios : sc.cfg.minZoom >= 17})

SpecEnsure == InitEnsure /\ [][NextEnsure]_vars

\* update(), the completions of its fetches, and direct calls of
\* _ensureZoomState between them, over a tile source
NextRecreate == Update \/ FetchResolve \/ FetchReject \/ EnsureZoomState

SpecRecreate == InitFetch /\ [][NextRecreate]_vars

\* desiredZoomForDistance(distMeters) as the refinement loop of a frame's
\* update() in trapezoid mode calls it, between that frame's minZoom and topZoom
DesiredZoomForDistance ==
    \E f \in FramesOf(env.frames), d \in Distances :
        LET sel == trapezoidSelect(f, cfg)
        IN  /\ last' = [d |-> d, z |-> desiredZoomForDistance(d, sel.minZoom, sel.topZoom),
                        minZoom |-> sel.minZoom, topZoom |-> sel.topZoom] @@
                       [NoObs EXCEPT !.op = "zoom", !.camera = f]
            /\ UNCHANGED <<refining, cfg, env, atlas, retired, fetches, pinNet, uniforms, material, rtLive, now, overlay>>

\* update() in trapezoid mode reaches the refinement loop: the stack holds
\* the tiles of viewportTileBounds at minZoom
RefineSeed ==
    \E f \in FramesOf(env.frames) :
        LET sel == trapezoidSelect(f, cfg)
            roots == rootsOf(TilesIn(sel.tileBounds), sel.minZoom)
        IN  /\ cfg.mode = "trapezoid"
            /\ refining.pc # "loop"
            /\ refining' = [pc |-> "loop", camera |-> f, sel |-> sel, roots |-> roots, stack |-> roots,
                            leaves |-> <<>>, work |-> 0, culled |-> {}, tilesByZoom |-> <<>>]
            /\ last' = [NoObs EXCEPT !.op = "refine", !.camera = f]
            /\ UNCHANGED <<cfg, env, atlas, retired, fetches, pinNet, uniforms, material, rtLive, now, overlay>>

\* one iteration of while (stack.length && work < maxWork)
RefinePop ==
    /\ refining.pc = "loop"
    /\ refining.stack # <<>> /\ refining.work < maxWork(cfg)
    /\ LET t == refining.stack[Len(refining.stack)]
           n == refineOnce(refining.stack, refining.leaves, refining.work,
                           refining.sel, refining.camera, cfg)
       IN  refining' = [refining EXCEPT !.stack = n.stack, !.leaves = n.leaves, !.work = n.work,
                            !.culled = IF Len(n.stack) < Len(refining.stack) /\ n.leaves = refining.leaves
                                       THEN @ \cup {t} ELSE @]
    /\ UNCHANGED <<cfg, env, atlas, retired, fetches, pinNet, uniforms, material, rtLive, now, last, overlay>>

\* the loop has ended: if (stack.length) the nodes left on the stack are
\* added to tilesByZoom
RefineLeftover ==
    /\ refining.pc = "loop"
    /\ ~(refining.stack # <<>> /\ refining.work < maxWork(cfg))
    /\ refining' = [refining EXCEPT !.pc = "done",
                        !.tilesByZoom = tilesOf([leaves |-> refining.leaves, stack |-> refining.stack],
                                                refining.camera)]
    /\ UNCHANGED <<cfg, env, atlas, retired, fetches, pinNet, uniforms, material, rtLive, now, last, overlay>>

InitRefine == InitWith(RefineScenarios)

NextRefine == RefineSeed \/ RefinePop \/ RefineLeftover

SpecRefine == InitRefine /\ [][NextRefine]_vars

\* the zoom selector of trapezoid mode on its own
InitZoom == InitWith(DepthScenarios)

NextZoom == DesiredZoomForDistance

SpecZoom == InitZoom /\ [][NextZoom]_vars

\* the uniforms of a compiled material: sampling disabled, or enabled with the
\* smoothness of the shipped configuration (0), of the internal default (0.7)
\* or of a configured 1 or more (1.0), in tenths; every slot unbound or bound
\* to a zoom state of zoom 17 or 18
SlotChoices ==
    {EmptySlot} \cup {[z |-> z, tex |-> "live", grid |-> <<100, 50, 1>>, cellSize |-> DefaultTileSize] :
                        z \in {17, 18}}

UniformChoices ==
    {[present |-> TRUE, enabled |-> e[1], smoothness |-> e[2], slots |-> sl] :
        e \in {<<0, 0>>, <<1, 0>>, <<1, 7>>, <<1, 10>>}, sl \in [1..4 -> SlotChoices]}

InitShader ==
    /\ cfg = BaseConfig /\ env = LayoutEnv
    /\ atlas = NewAtlasState
    /\ retired = <<>>
    /\ fetches = {}
    /\ pinNet = NoMap
    /\ uniforms \in UniformChoices
    /\ material = installOnMaterial(TerrainMaterial, TRUE, shaderVersion)
    /\ refining = NoLoop
    /\ rtLive = 0
    /\ now = 0
    /\ overlay = NewOverlay
    /\ last = NoObs

\* the GPU shades one fragment of the terrain material
MapFragment ==
    \E texels \in [1..4 -> {"none", "solid", "isolated"}] :
        /\ last' = [texels |-> texels, source |-> mapFragment(uniforms, texels)] @@
                   [NoObs EXCEPT !.op = "fragment"]
        /\ UNCHANGED <<refining, cfg, env, atlas, retired, fetches, pinNet, uniforms, material, rtLive, now, overlay>>

NextShader == MapFragment

SpecShader == InitShader /\ [][NextShader]_vars

\* the materials installOnMaterial can be handed: with or without a texture
\* map, with the hooks of the prototype or with hooks of the host
MaterialChoices == {NewMaterial(h, map) : h \in {DefaultHook, HostHook}, map \in BOOLEAN}

\* the _shaderVersion of the atlas that calls installOnMaterial: this build's
\* and those of an earlier and a later build
ShaderVersions == {shaderVersion - 1, shaderVersion, shaderVersion + 1}

InitMaterial ==
    /\ cfg = BaseConfig /\ env = LayoutEnv
    /\ atlas = NewAtlasState
    /\ retired = <<>>
    /\ fetches = {}
    /\ pinNet = NoMap
    /\ uniforms = NoUniforms
    /\ material \in MaterialChoices
    /\ refining = NoLoop
    /\ rtLive = 0
    /\ now = 0
    /\ overlay = NewOverlay
    /\ last = NoObs

\* any call of installOnMaterial(material), by an atlas of some shader
\* version, while the configuration enables or disables the shader patch
InstallOnMaterialAt ==
    \E enabled \in BOOLEAN, version \in ShaderVersions :
        /\ material' = installOnMaterial(material, enabled, version)
        /\ last' = [version |-> version, enabled |-> enabled, before |-> material] @@
                   [NoObs EXCEPT !.op = "install"]
        /\ UNCHANGED <<refining, cfg, env, atlas, retired, fetches, pinNet, uniforms, rtLive, now, overlay>>

\* the renderer compiles the material's program: it calls
\* material.onBeforeCompile(shader, renderer) once; the atlas injection
\* stores the shader's uniforms in userData.mapAtlasUniforms
CompileMaterial ==
    /\ last' = [trace |-> material.onBeforeCompile.calls] @@ [NoObs EXCEPT !.op = "compile"]
    /\ uniforms' = IF InjectsAtlas(material) THEN [NoUniforms EXCEPT !.present = TRUE] ELSE uniforms
    /\ UNCHANGED <<refining, cfg, env, atlas, retired, fetches, pinNet, material, rtLive, now, overlay>>

\* a call of disableOnAllMaterials()
DisableOnAllMaterials ==
    /\ Becomes(disableOnAllMaterials(World))
    /\ last' = [NoObs EXCEPT !.op = "disable"]
    /\ UNCHANGED <<refining, cfg, env, now, overlay>>

NextMaterial == InstallOnMaterialAt \/ CompileMaterial \/ DisableOnAllMaterials

SpecMaterial == InitMaterial /\ [][NextMaterial]_vars

\* the layout of the atlas grids and the uniform slots
InitLayout == InitWith(LayoutScenarios)

NextLayout == Update \/ Clear \/ InstallOnMaterial

SpecLayout == InitLayout /\ [][NextLayout]_vars

---------------------------------------------------------------------------
(* Properties *)

\* the keys in the desired set of a zoom state of the current table
Desired == ActiveKeysOf(atlas.byZoom)

\* the zoom states of a table without their in-flight entries
WithoutLoads(byZoom) == [z \in DOMAIN byZoom |-> [byZoom[z] EXCEPT !.loads = {}]]

\* C1: with a tile source present, pin calls minus unpin calls is 1 for every
\* key in the desired set of a zoom state of the current table and 0 for
\* every other key, and never negative
C1_PinBalance == pinNet = [k \in Desired |-> 1]

\* a tile was desired and requested, has left the desired set since, and
\* another tile is pinned
C1_Witness ==
    \E p \in fetches : p.at = 0 /\ p.key \notin Desired /\ PinCount(pinNet, p.key) = 0 /\ pinNet # NoMap

\* C2: a completion that resolves after clear(), after its zoom left the
\* table or after its key left the desired set binds no texture, changes no
\* cell and sets no dirty flag on any zoom state, live or disposed
C2_StaleIgnored == (last.op = "resolve" /\ last.stale) => ~last.wrote

C5_ThrottleHolds ==
    [][(last'.op = "update" /\ last'.gate = "ran" /\ last.ranAt # NoTime)
        => now' - last.ranAt >= cfg.updateMs]_vars

\* C6: one update() call issues at most MaxNewLoadsPerTick new fetches, all
\* zoom levels together
C6_QuotaPerCall == last.op = "update" => Cardinality(last.issued) <= MaxNewLoadsPerTick

Published == <<atlas.byZoom, fetches, pinNet, uniforms>>

\* C8 as stated: update() with a missing projection or a non-finite camMerc
\* leaves the table, the fetches, the pin counts and the uniforms as they were
C8_InvalidIsNoOp ==
    [][(last'.op = "update" /\ last'.proj # "ok") => UNCHANGED Published]_vars

\* C8: update() with a missing projection or a non-finite camMerc leaves
\* them as they were when the shader patch is enabled and the height gate
\* does not fire
C8_InvalidIsNoOpWhenEnabledAndLow ==
    [][(last'.op = "update" /\ last'.proj # "ok" /\ last'.gate \notin {"disabled", "height"})
        => UNCHANGED Published]_vars

\* an update() without projection returned at the validation, over a filled
\* table with a fetch in flight and uniforms published
C8_Witness ==
    /\ last.op = "update" /\ last.proj # "ok" /\ last.gate = "invalid"
    /\ atlas.byZoom # NoMap /\ fetches # {} /\ pinNet # NoMap
    /\ uniforms.present /\ uniforms.enabled = 1

RangeOf(f) == IF cfg.mode = "trapezoid" THEN maxRangeMeters(f, cfg) ELSE Max2(1, cfg.nearMeters)

---------------------------------------------------------------------------
(* The layout of a zoom's grid *)

\* the candidate tiles update() collects for zoom z under camera f
candidatesOf(f, c, z) ==
    IF c.mode = "trapezoid"
    THEN SelectSeq(trapezoidTiles(trapezoidSelect(f, c), f, c), LAMBDA k : KeyZ(k.key) = z)
    ELSE viewportCandidates(f, z, viewportSelect(f, c).boundsByZoom[z],
                            viewportSelect(f, c).rangeByZoom[z])

\* the width and the height of the bounding rectangle of a list of candidates
WidthOf(cands) ==
    SetMax({cands[i].tileX : i \in DOMAIN cands}) - SetMin({cands[i].tileX : i \in DOMAIN cands}) + 1
HeightOf(cands) ==
    SetMax({cands[i].tileY : i \in DOMAIN cands}) - SetMin({cands[i].tileY : i \in DOMAIN cands}) + 1

\* g is the grid size the bounding rectangle asks for: its larger side, or
\* with mipmaps the smallest power of two that is no smaller
IsWantedGridSize(g, cands, wantsMipmaps) ==
    LET e == Max2(WidthOf(cands), HeightOf(cands))
    IN  IF wantsMipmaps
        THEN \E k \in 0..8 : g = Pow2(k) /\ g >= e /\ (k = 0 \/ Pow2(k - 1) < e)
        ELSE g = e

\* the last call was an update() that ran the tile selection
UpdateRan == last.op = "update" /\ last.gate = "ran"

\* C11 as stated: after an update() in either LOD mode, every zoom's grid size
\* is the larger side of its candidates' bounding rectangle, rounded up to a
\* power of two with mipmaps, and the grid contains every candidate tile
C11_GridFitsCandidates ==
    UpdateRan =>
        \A z \in DOMAIN atlas.byZoom :
            /\ IsWantedGridSize(atlas.byZoom[z].grid.gridSize, candidatesOf(last.camera, cfg, z), cfg.mipmaps)
            /\ \A k \in KeysOf(candidatesOf(last.camera, cfg, z)) :
                    InGrid(atlas.byZoom[z].grid, KeyX(k), KeyY(k))

\* the grid size of zoom state st for the candidates cands: the wanted size,
\* or outside trapezoid mode the largest size maxGridForCell allows when the
\* wanted size exceeds it
IsCappedGridSize(st, cands, c) ==
    LET cap == maxGridForCell(st.cellSize, c.mipmaps)
        g == st.grid.gridSize
    IN  IF c.mode # "trapezoid" /\ ~(g <= cap /\ IsWantedGridSize(g, cands, c.mipmaps))
        THEN g = cap /\ \A w \in 1..cap : ~IsWantedGridSize(w, cands, c.mipmaps)
        ELSE IsWantedGridSize(g, cands, c.mipmaps)

\* C11 (amended): the grid size is the wanted size, except that outside
\* trapezoid mode a wanted size above maxGridForCell(cell size) is replaced by
\* that maximum; the grid contains every candidate unless the size was
\* replaced, and then the desired keys are the candidates inside the grid
C11_GridFitsCandidatesUpToCap ==
    UpdateRan =>
        \A z \in DOMAIN atlas.byZoom :
            /\ IsCappedGridSize(atlas.byZoom[z], candidatesOf(last.camera, cfg, z), cfg)
            /\ atlas.byZoom[z].activeKeys =
                    {k \in KeysOf(candidatesOf(last.camera, cfg, z)) :
                        InGrid(atlas.byZoom[z].grid, KeyX(k), KeyY(k))}
            /\ IsWantedGridSize(atlas.byZoom[z].grid.gridSize, candidatesOf(last.camera, cfg, z), cfg.mipmaps)
                => atlas.byZoom[z].activeKeys = KeysOf(candidatesOf(last.camera, cfg, z))

\* candidates 4 tiles wide and 3 tiles high got a grid of size 4 under mipmaps
C11_Witness ==
    /\ UpdateRan /\ cfg.mipmaps
    /\ \E z \in DOMAIN atlas.byZoom :
            /\ WidthOf(candidatesOf(last.camera, cfg, z)) = 4
            /\ HeightOf(candidatesOf(last.camera, cfg, z)) = 3
            /\ atlas.byZoom[z].grid.gridSize = 4
            /\ atlas.byZoom[z].activeKeys = KeysOf(candidatesOf(last.camera, cfg, z))

\* C12: in either LOD mode the side of every live zoom state's render target,
\* grid size times cell size in pixels, is at most maxRTSize
C12_AtlasFitsRenderTarget ==
    \A z \in DOMAIN atlas.byZoom :
        Max2(1, atlas.byZoom[z].grid.gridSize) * atlas.byZoom[z].cellSize <= maxRTSize

\* C13: every desired key of a zoom state is a tile of that zoom inside the
\* state's grid, and the grid lies in the tile range of the zoom:
\* 0 <= originX, originY <= 2^z - gridSize
C13_DesiredInsideGrid ==
    \A z \in DOMAIN atlas.byZoom :
        /\ \A k \in atlas.byZoom[z].activeKeys :
                KeyZ(k) = z /\ InGrid(atlas.byZoom[z].grid, KeyX(k), KeyY(k))
        /\ atlas.byZoom[z].grid.originX \in 0..(Pow2(z) - atlas.byZoom[z].grid.gridSize)
        /\ atlas.byZoom[z].grid.originY \in 0..(Pow2(z) - atlas.byZoom[z].grid.gridSize)

\* an update() left a zoom with several desired keys whose grid had to move
\* off the camera-centred position to hold them
C13_Witness ==
    /\ UpdateRan
    /\ \E z \in DOMAIN atlas.byZoom :
            /\ Cardinality(atlas.byZoom[z].activeKeys) > 1
            /\ atlas.byZoom[z].grid.originX #
                    centerTile(last.camera, z).x - (atlas.byZoom[z].grid.gridSize \div 2)

---------------------------------------------------------------------------
(* _ensureZoomState *)

\* C14: _ensureZoomState called for a zoom with the grid and the cell size its
\* state already has changes nothing: the zoom-state table with every state's
\* grid, cells, desired keys, textures, in-flight fetches and dirty flag is as
\* before, no render target is allocated or disposed, no uniform slot goes stale
C14_EnsureSameIsNoOp ==
    [][last'.op = "ensure" /\ last'.gate = "same" =>
            /\ atlas' = atlas
            /\ rtLive' = rtLive
            /\ uniforms' = uniforms
            /\ <<retired', fetches', pinNet'>> = <<retired, fetches, pinNet>>]_vars

\* _ensureZoomState was called with the grid and the cell size of a zoom
\* state that has desired keys
C14_Witness ==
    /\ last.op = "ensure" /\ last.gate = "same"
    /\ atlas.byZoom[last.zoom].activeKeys # {}

---------------------------------------------------------------------------
(* The distance rings of viewport mode *)

\* the radius zoom z covers under the camera of the last update()
coveredRadius(z) == viewportSelect(last.camera, cfg).rangeByZoom[z]

\* C15: after an update() in viewport mode, of two live zooms z1 < z2 the
\* lower one has no desired tile whose distance from the camera lies within
\* the radius z2 covers, and every candidate tile of z1 beyond the radius of
\* the zooms above it is desired
C15_RingsDoNotOverlap ==
    UpdateRan /\ cfg.mode = "viewport" =>
        \A z1 \in DOMAIN atlas.byZoom :
            /\ \A z2 \in DOMAIN atlas.byZoom, k \in atlas.byZoom[z1].activeKeys :
                    z1 < z2 => rectDistOf(last.camera, KeyX(k), KeyY(k), z1) > coveredRadius(z2)
            /\ \A k \in KeysOf(candidatesOf(last.camera, cfg, z1)) :
                    /\ InGrid(atlas.byZoom[z1].grid, KeyX(k), KeyY(k))
                    /\ rectDistOf(last.camera, KeyX(k), KeyY(k), z1) >
                            innerRangeByZoom(viewportSelect(last.camera, cfg))[z1]
                    => k \in atlas.byZoom[z1].activeKeys

---------------------------------------------------------------------------
(* The zoom of a distance *)

\* C16: of two consecutive calls of desiredZoomForDistance between the same
\* zoom bounds, the one with the larger distance returns no higher a zoom; and
\* every result lies in minZoom..topZoom
C16_ZoomFallsWithDistance ==
    [][last'.op = "zoom" =>
            /\ last'.z \in last'.minZoom..last'.topZoom
            /\ (last.op = "zoom" /\ last.minZoom = last'.minZoom /\ last.topZoom = last'.topZoom
                    /\ last.d <= last'.d)
                => last.z >= last'.z]_vars

\* a call returned a zoom strictly between the bounds
C16_Witness ==
    last.op = "zoom" /\ last.d > 1 /\ last.minZoom < last.z /\ last.z < last.topZoom

\* C17 as stated: at a distance of 5000 m the desired zoom is 14 whenever 14
\* lies within the zoom bounds
C17_Zoom14At5000m ==
    last.op = "zoom" /\ last.d = 5000 /\ 14 \in last.minZoom..last.topZoom => last.z = 14

\* C17 (amended): at a distance of 5000 m the desired zoom is 15 whenever 15
\* lies within the zoom bounds, and so is the top zoom of a camera whose
\* centre ray reaches the ground 5000 m away, when the configuration allows 15
C17_Zoom15At5000m ==
    /\ last.op = "zoom" /\ last.d = 5000 /\ 15 \in last.minZoom..last.topZoom => last.z = 15
    /\ last.op = "zoom" /\ viewDepth(last.camera) = 5000 /\ cfg.autoMaxZoom
            /\ 15 \in atlasMinZoom(cfg)..atlasMaxZoom(cfg)
        => last.topZoom = 15

\* desiredZoomForDistance was asked about 5000 m between bounds that hold 14 and 15
C17_Witness ==
    last.op = "zoom" /\ last.d = 5000 /\ {14, 15} \subseteq last.minZoom..last.topZoom

---------------------------------------------------------------------------
(* The uniform slots *)

\* slot i of the material's uniforms holds no zoom state: no texture, grid size 0
Unbound(i) == uniforms.slots[i].tex = "null" /\ uniforms.slots[i].grid[3] = 0

\* slot i holds the live zoom state of its zoom
Bound(i) ==
    /\ uniforms.slots[i].z \in DOMAIN atlas.byZoom
    /\ uniforms.slots[i].tex = "live"
    /\ uniforms.slots[i].grid[3] = atlas.byZoom[uniforms.slots[i].z].grid.gridSize

\* C18: after an update() that ended in _setUniforms(true), the first
\* min(4, live zooms) slots hold live zoom states in strictly descending zoom
\* order, no live zoom outside the slots is higher than one inside, the other
\* slots are unbound and sampling is enabled; after clear(), which ends in
\* _setUniforms(false), all four slots are unbound and sampling is disabled
C18_SlotsHoldHighestZooms ==
    /\ UpdateRan /\ uniforms.present /\ ~cfg.skipTileLoad =>
            /\ uniforms.enabled = 1
            /\ \A i \in 1..4 :
                    IF i <= Cardinality(DOMAIN atlas.byZoom) THEN Bound(i) ELSE Unbound(i)
            /\ \A i \in 1..3 : Bound(i) /\ Bound(i + 1) => uniforms.slots[i].z > uniforms.slots[i + 1].z
            /\ \A z \in DOMAIN atlas.byZoom :
                    (\A i \in 1..4 : uniforms.slots[i].z # z) =>
                        \A i \in 1..4 : Bound(i) /\ uniforms.slots[i].z > z
    /\ last.op = "clear" /\ uniforms.present =>
            uniforms.enabled = 0 /\ \A i \in 1..4 : Unbound(i)

\* an update() bound four of five live zoom states
C18_Witness ==
    /\ UpdateRan /\ uniforms.present
    /\ Cardinality(DOMAIN atlas.byZoom) = 5
    /\ \A i \in 1..4 : Bound(i)

---------------------------------------------------------------------------
(* The slot a fragment takes its colour from *)

\* the slots whose render target holds a non-transparent sample at the last fragment
PresentSlots == {i \in 1..4 : uniforms.slots[i].grid[3] > 0 /\ last.texels[i] # "none"}

\* C19: with sampling enabled and a non-transparent sample in some slot, the
\* fragment takes its colour from a slot that has one and whose zoom no other
\* such slot exceeds; with sampling disabled or no such slot it keeps the
\* base colour
C19_HighestPresentSlotWins ==
    last.op = "fragment" =>
        IF uniforms.enabled = 1 /\ PresentSlots # {}
        THEN /\ last.source \in PresentSlots
             /\ \A j \in PresentSlots : uniforms.slots[last.source].z >= uniforms.slots[j].z
        ELSE last.source = 0

\* below full smoothing the selection is as C19 says: the smoothed sample of
\* the selected slot stays above the alpha cutoff
HighestPresentSlotWinsBelowFullSmoothing ==
    uniforms.smoothness < 10 => C19_HighestPresentSlotWins

\* at full smoothing a fragment kept the base colour although slots had samples
FullSmoothingDropsSample ==
    /\ last.op = "fragment" /\ uniforms.enabled = 1 /\ uniforms.smoothness = 10
    /\ PresentSlots # {} /\ last.source = 0

\* what one compile of the material m runs when the atlas hook is installed
\* once: the hook the material was created with, then the atlas injection of
\* the installed version
ChainedOnce(m) == m.created.calls \o <<[who |-> "atlas", v |-> m.userData.mapAtlasVersion]>>

\* C20: installOnMaterial installs the atlas hook once per shader version and
\* chains: a call on a material that carries the hook of the caller's version
\* changes nothing; after every call (a re-install at another version and a
\* disable between installs included) the hook of an installed material calls
\* the hook the material was created with exactly once and then injects the
\* atlas code exactly once, and that is what a compile runs
C20_InstallChainsOnce ==
    [][/\ (material'.userData.mapAtlasInstalled
            => material'.onBeforeCompile.calls = ChainedOnce(material'))
       /\ (last'.op = "install" /\ material.userData.mapAtlasInstalled
                /\ material.userData.mapAtlasVersion = last'.version
            => material' = material)
       /\ (last'.op = "compile" /\ material.userData.mapAtlasInstalled
            => last'.trace = ChainedOnce(material))]_vars

\* a re-install at a new version on a material with a hook of the host: the
\* material carried the hook of another version, and now carries this one
C20_Witness ==
    /\ last.op = "install"
    /\ last.before.userData.mapAtlasInstalled
    /\ last.before.userData.mapAtlasVersion # last.version
    /\ material.created = HostHook
    /\ material.userData.mapAtlasInstalled
    /\ material.userData.mapAtlasVersion = last.version
    /\ material # last.before

\* no live zoom state waits for its composite pass
NoDirty == \A z \in DOMAIN atlas.byZoom : ~atlas.byZoom[z].dirty

\* C21: at the end of every update() call, the calls that return through the
\* debounce or the throttle gate included, no live zoom state has its dirty
\* flag set
C21_CompositedAfterEveryUpdate == last.op = "update" => NoDirty

\* at the end of an update() call that ran the tile selection with tile
\* loading on, no live zoom state has its dirty flag set
CompositedAfterSelection == (UpdateRan /\ ~cfg.skipTileLoad) => NoDirty

\* a completion bound a texture and an update() returned through the throttle
DirtyThroughThrottle == last.op = "update" /\ last.gate = "throttle" /\ ~NoDirty

\* C22: a call of _ensureZoomState that recreates the state of a zoom (its
\* grid or its cell size changed) keeps the desired keys, the textures and
\* the in-flight fetches of the previous state, pins and unpins nothing,
\* issues nothing, releases the old render target (the number of live render
\* targets stays, no uniform slot holds the old one as live) and leaves the
\* new state dirty, with every cell transparent
C22_RecreationCarriesBookkeeping ==
    [][(last'.op = "ensure" /\ last'.gate = "changed" /\ last'.zoom \in DOMAIN atlas.byZoom)
       => LET old == atlas.byZoom[last'.zoom]
              new == atlas'.byZoom[last'.zoom]
          IN  /\ new.activeKeys = old.activeKeys
              /\ new.textures = old.textures
              /\ new.loads = old.loads
              /\ pinNet' = pinNet
              /\ fetches' = fetches
              /\ rtLive' = rtLive
              /\ new.rt = "live"
              /\ \A i \in 1..4 : ~(uniforms'.slots[i].z = last'.zoom /\ uniforms'.slots[i].tex = "live")
              /\ new.dirty
              /\ \A i \in DOMAIN new.cells : new.cells[i] = NoTex]_vars

\* a recreated state that carries a texture, a fetch in flight and desired keys
C22_Witness ==
    /\ last.op = "ensure" /\ last.gate = "changed"
    /\ last.zoom \in DOMAIN atlas.byZoom
    /\ atlas.byZoom[last.zoom].textures # {}
    /\ atlas.byZoom[last.zoom].loads # {}
    /\ atlas.byZoom[last.zoom].activeKeys # {}
    /\ pinNet # NoMap
    /\ atlas.byZoom[last.zoom].dirty

\* the candidate of tilesByZoom for the node t: t's own tile at t's own zoom
InTilesByZoom(t) ==
    \E i \in DOMAIN refining.tilesByZoom :
        refining.tilesByZoom[i].key = tileKey(t.z, t.tileX, t.tileY)

\* C23: the refinement loop of trapezoid mode does at most maxWork iterations
\* (mapDrapeLodMaxWork, at least 64, 200000 when unset), and once it has
\* ended every node left on the stack is in tilesByZoom as its own tile at
\* its own zoom, beside every leaf: no pending node is dropped
C23_WorkCapKeepsPendingNodes ==
    /\ refining.pc # "none" => refining.work <= maxWork(cfg)
    /\ refining.pc = "done"
        => /\ \A i \in DOMAIN refining.stack : InTilesByZoom(refining.stack[i])
           /\ Len(refining.tilesByZoom) = Len(refining.leaves) + Len(refining.stack)
           /\ (refining.stack # <<>> => refining.work = maxWork(cfg))

\* the loop stopped at its cap of 64 iterations with nodes of several zooms
\* on the stack
C23_Witness ==
    /\ refining.pc = "done"
    /\ refining.work = 64
    /\ Cardinality({refining.stack[i].z : i \in DOMAIN refining.stack}) >= 2

\* the per-zoom tile cap in force: Math.max(4, lodCfg.maxTilesPerZoom | 0)
TileCap == Max2(4, cfg.maxTilesPerZoom)

\* C24: under both LOD strategies no zoom has more candidate tiles selected
\* by one update() than the per-zoom tile cap
C24_TilesPerZoomCapped ==
    UpdateRan => \A z \in DOMAIN atlas.byZoom : Cardinality(atlas.byZoom[z].activeKeys) <= TileCap

\* more tiles than the cap at one zoom, in mode m
OverCapIn(m) ==
    /\ UpdateRan /\ cfg.mode = m
    /\ \E z \in DOMAIN atlas.byZoom : Cardinality(atlas.byZoom[z].activeKeys) > TileCap
OverCapInViewport == OverCapIn("viewport")
OverCapInTrapezoid == OverCapIn("trapezoid")

\* the planar distance of the camera of the last update() to the tile of a key
DistOfKey(key) == rectDistOf(last.camera, KeyX(key), KeyY(key), KeyZ(key))

\* the tiles of A's zoom that the fetch loop passed over for want of quota:
\* desired, inside the grid, without a texture and without a fetch in flight
PassedOver(A) ==
    LET st == atlas.byZoom[KeyZ(A)]
    IN  {B \in st.activeKeys : /\ B \notin st.textures
                                /\ B \notin st.loads
                                /\ InGrid(st.grid, KeyX(B), KeyY(B))}

\* C25: fetches are issued nearest-first within a zoom: after an update(), a
\* tile that got a new fetch is no farther from the camera than any tile of
\* its zoom that is desired, not resident, not in flight and got none
C25_FetchesNearestFirst ==
    UpdateRan => \A A \in last.issued :
                    /\ KeyZ(A) \in DOMAIN atlas.byZoom
                    /\ \A B \in PassedOver(A) : DistOfKey(A) <= DistOfKey(B)

\* the quota went to a tile while farther tiles of its zoom wait
C25_Witness ==
    /\ UpdateRan
    /\ \E A \in last.issued :
          /\ DistOfKey(A) > 0
          /\ \E B \in PassedOver(A) : DistOfKey(A) < DistOfKey(B)

\* the completion of the last step found its zoom state gone from the table
\* of this._state or its key outside the desired set
StaleInCurrentTable(p) ==
    /\ p.at = 0
    /\ \/ KeyZ(p.key) \notin DOMAIN atlas.byZoom
       \/ p.key \notin atlas.byZoom[KeyZ(p.key)].activeKeys

\* C26: a completion that finds its zoom state gone or its key no longer
\* desired writes nothing: the pending cell sizes, the zoom states (but for
\* the in-flight entry of the settled fetch), the pins, the render targets
\* and the uniforms are as before
C26_StaleCompletionWritesNothing ==
    [][\A p \in fetches \ fetches' :
          (last'.op = "resolve" /\ last'.key = p.key /\ StaleInCurrentTable(p))
          => /\ atlas'.pending = atlas.pending
             /\ WithoutLoads(atlas'.byZoom) = WithoutLoads(atlas.byZoom)
             /\ pinNet' = pinNet
             /\ rtLive' = rtLive
             /\ uniforms' = uniforms]_vars

\* the same completion leaves the zoom states, the pins, the render targets
\* and the uniforms as they were
StaleCompletionKeepsZoomStates ==
    [][\A p \in fetches \ fetches' :
          (last'.op = "resolve" /\ last'.key = p.key /\ StaleInCurrentTable(p))
          => /\ WithoutLoads(atlas'.byZoom) = WithoutLoads(atlas.byZoom)
             /\ pinNet' = pinNet
             /\ rtLive' = rtLive
             /\ uniforms' = uniforms]_vars

\* C27: a completion whose key is in the desired set of the zoom state now in
\* the table stores the texture there, binds it to the cell the tile has in
\* the grid of that state, whatever the grid was when the fetch was issued,
\* and marks that state dirty
C27_CompletionBindsInCurrentGrid ==
    [][\A p \in fetches \ fetches' :
          LET z == KeyZ(p.key)
          IN  (/\ last'.op = "resolve" /\ last'.key = p.key /\ p.at = 0
               /\ z \in DOMAIN atlas.byZoom
               /\ p.key \in atlas.byZoom[z].activeKeys)
              => LET st == atlas.byZoom[z]
                     stNow == atlas'.byZoom[z]
                 IN  /\ stNow.grid = st.grid
                     /\ p.key \in stNow.textures
                     /\ InGrid(st.grid, KeyX(p.key), KeyY(p.key))
                     /\ stNow.cells[CellIdx(st.grid, KeyX(p.key), KeyY(p.key))] = p.key
                     /\ stNow.dirty]_vars

\* a fetch was in flight while update() replaced the state of its zoom by
\* one in whose grid the tile has another cell, and has resolved there
C27_Witness ==
    /\ last.op = "resolve" /\ ~last.stale
    /\ last.key \in last.recreated
    /\ KeyZ(last.key) \in DOMAIN atlas.byZoom
    /\ LET st == atlas.byZoom[KeyZ(last.key)]
       IN  /\ CellIdx(st.grid, KeyX(last.key), KeyY(last.key)) # 0
           /\ st.cells[CellIdx(st.grid, KeyX(last.key), KeyY(last.key))] = last.key
           /\ st.dirty

\* update() and the completions of its fetches over the hosts of Init, whose
\* cameras move zoom levels into and out of the active range
SpecDrop == Init /\ [][NextFetch]_vars

\* the active zoom range of update() under camera f: minTileZoom..maxTileZoom
\* in viewport mode, zoomLevels in trapezoid mode
ActiveZoomRange(f, c) ==
    IF c.mode = "trapezoid"
    THEN LET sel == trapezoidSelect(f, c) IN sel.minZoom..sel.topZoom
    ELSE LET sel == viewportSelect(f, c) IN sel.activeMinZoom..sel.topZoom

\* the zooms of the active range for which update() collects a candidate: in
\* viewport mode a zoom without a range is left before the scan
ZoomsWithCandidates(f, c) ==
    IF c.mode = "trapezoid"
    THEN LET tiles == trapezoidTiles(trapezoidSelect(f, c), f, c)
         IN  {z \in ActiveZoomRange(f, c) : \E i \in DOMAIN tiles : KeyZ(tiles[i].key) = z}
    ELSE LET sel == viewportSelect(f, c)
         IN  {z \in sel.activeMinZoom..sel.topZoom :
                /\ z \in DOMAIN sel.boundsByZoom
                /\ sel.rangeByZoom[z] > 0
                /\ viewportCandidates(f, z, sel.boundsByZoom[z], sel.rangeByZoom[z]) # <<>>}

\* C28: an update() that runs the tile selection leaves a zoom state only for
\* zooms of the active range with a candidate tile; every state it takes out
\* of the table has its desired keys unpinned and its render target
\* disposed, and every state it puts in is of a zoom with candidates
C28_StatesOnlyForZoomsWithCandidates ==
    [][(last'.op = "update" /\ last'.gate = "ran")
       => LET f == last'.camera
              gone == DOMAIN atlas.byZoom \ DOMAIN atlas'.byZoom
              made == DOMAIN atlas'.byZoom \ DOMAIN atlas.byZoom
              withCandidates == ZoomsWithCandidates(f, cfg)
          IN  /\ DOMAIN atlas'.byZoom \subseteq withCandidates
              /\ \A z \in gone : \A k \in atlas.byZoom[z].activeKeys : PinCount(pinNet', k) = 0
              /\ rtLive' = rtLive - Cardinality(gone) + Cardinality(made)
              /\ made \subseteq withCandidates]_vars

\* an update() has run the tile selection, a zoom it destroyed still has a
\* fetch in flight and no pin, and another zoom has a state
C28_Witness ==
    /\ UpdateRan
    /\ atlas.byZoom # NoMap
    /\ \E p \in fetches :
          /\ p.at = 0
          /\ KeyZ(p.key) \notin DOMAIN atlas.byZoom
          /\ KeyZ(p.key) \notin ZoomsWithCandidates(last.camera, cfg)
          /\ PinCount(pinNet, p.key) = 0

\* update(), the completions of its fetches and installOnMaterial over the
\* hosts with a tile source
NextPublish == Update \/ FetchResolve \/ InstallOnMaterial

SpecPublish == InitFetch /\ [][NextPublish]_vars

\* C29: in a call of update() that runs the tile selection no render target
\* is allocated and no composite pass runs after _setUniforms: the uniforms
\* the call published are those of the zoom states it leaves, none holds a
\* disposed render target, and with tile loading on no state is left dirty
C29_NothingAfterUniforms ==
    UpdateRan
    => /\ last.work # "after"
       /\ uniforms = setUniforms(uniforms, atlas.byZoom, ~cfg.skipTileLoad, cfg.smoothness)
       /\ \A i \in DOMAIN uniforms.slots : uniforms.slots[i].tex # "stale"
       /\ ~cfg.skipTileLoad => NoDirty

\* a call allocated a render target or composited a zoom, and then
\* published the uniforms of that zoom to an installed material
C29_Witness ==
    /\ UpdateRan
    /\ last.work = "before"
    /\ uniforms.present
    /\ \E i \in DOMAIN uniforms.slots :
          /\ uniforms.slots[i].tex = "live"
          /\ uniforms.slots[i].z \in DOMAIN atlas.byZoom

\* the tile u is the tile of the node t or one of its descendants
WithinNode(u, t) ==
    /\ KeyZ(u.key) >= t.z
    /\ FloorDiv(u.tileX, Pow2(KeyZ(u.key) - t.z)) = t.tileX
    /\ FloorDiv(u.tileY, Pow2(KeyZ(u.key) - t.z)) = t.tileY

\* the node t is in tilesByZoom as its own tile or through a descendant
Represented(t) == \E i \in DOMAIN refining.tilesByZoom : WithinNode(refining.tilesByZoom[i], t)

\* C30: once the refinement loop of trapezoid mode has ended, every tile the
\* stack was seeded with at minZoom is in tilesByZoom, as a leaf or through
\* descendants, in or out of the frustum, and no node of minZoom was culled
C30_CoarsestRingKept ==
    refining.pc = "done"
    => /\ \A i \in DOMAIN refining.roots : Represented(refining.roots[i])
       /\ \A t \in refining.culled : t.z > refining.sel.minZoom

\* no node of minZoom is culled while the frustum test fails for it and it
\* lies within maxRangeMeters
CoarsestRingKeptInRange ==
    refining.pc = "done"
    => \A i \in DOMAIN refining.roots :
          LET t == refining.roots[i]
          IN  rectDistOf(refining.camera, t.tileX, t.tileY, t.z) <= refining.sel.maxRangeMeters
              => Represented(t) /\ t \notin refining.culled

\* a tile of the coarsest ring farther than maxRangeMeters was culled
RootBeyondRangeCulled ==
    /\ refining.pc = "done"
    /\ \E t \in refining.culled :
          /\ t.z = refining.sel.minZoom
          /\ rectDistOf(refining.camera, t.tileX, t.tileY, t.z) > refining.sel.maxRangeMeters
          /\ ~Represented(t)

\* a tile of the coarsest ring outside the frustum is accepted as a leaf
RootOutsideFrustumKept ==
    /\ refining.pc = "done"
    /\ \E i \in DOMAIN refining.roots :
          LET t == refining.roots[i]
          IN  /\ ~isTileVisibleInFrustum(refining.camera,
                                          rectDistOf(refining.camera, t.tileX, t.tileY, t.z))
              /\ InTilesByZoom(t)

\* the last call was an update() that returned through the height gate
AboveHeight == last.op = "update" /\ last.gate = "height"

\* no zoom state is live: none in the table, no tile pinned, no render
\* target allocated
NothingLive == atlas.byZoom = NoMap /\ pinNet = NoMap /\ rtLive = 0

\* C31: an update() with the camera above the height threshold issues no
\* fetch and leaves no zoom state, no pinned tile and no render target, and
\* the uniforms of an installed material have sampling disabled and no slot
\* bound
C31_AboveHeightAllOff ==
    AboveHeight
    => /\ last.issued = {}
       /\ NothingLive
       /\ uniforms.present
            => /\ uniforms.enabled = 0
               /\ \A i \in DOMAIN uniforms.slots : uniforms.slots[i] = EmptySlot

\* the same call leaves nothing live
AboveHeightNothingLive == AboveHeight => (last.issued = {} /\ NothingLive)

\* above the height threshold sampling is still enabled in the uniforms
AboveHeightStillEnabled == AboveHeight /\ NothingLive /\ uniforms.present /\ uniforms.enabled = 1

\* the promises in flight for the tile key
InFlight(key) == {p \in fetches : p.key = key}

\* C32: no tile key has two fetches in flight at once, and a step takes the
\* in-flight entry of a key out of a zoom state of the table only by
\* settling a fetch of that key when no other is in flight for it
C32_OneFetchPerKey ==
    /\ \A p \in fetches : Cardinality(InFlight(p.key)) <= 1
    /\ \A z \in DOMAIN atlas.byZoom : \A k \in atlas.byZoom[z].loads : InFlight(k) # {}

\* two fetches of one key issued by the table of this._state are in flight
TwoFetchesOfOneKey == \E p, q \in fetches : p # q /\ p.key = q.key /\ p.at = 0 /\ q.at = 0

\* a fetch is in flight for a desired key of a state of the table that has
\* no in-flight entry for it
InFlightWithoutEntry ==
    \E p \in fetches :
        /\ p.at = 0
        /\ KeyZ(p.key) \in DOMAIN atlas.byZoom
        /\ p.key \in atlas.byZoom[KeyZ(p.key)].activeKeys
        /\ p.key \notin atlas.byZoom[KeyZ(p.key)].loads

---------------------------------------------------------------------------
(* Progress under a camera that stays fixed *)

\* a clock value s earlier: update() reads its clock only through the
\* differences now - lastMoveAt and now - lastUpdate, and a difference that
\* reaches MaxTime is past every threshold of the configurations
Earlier(t, s) == IF t = NoTime THEN NoTime ELSE Max2(0, t - s)

\* the host calls update(camera) dt > 0 after the previous call, on a clock
\* whose origin moves forward once it passes MaxTime
UpdateAdvancing ==
    \E f \in FramesOf(env.frames), dt \in env.dts \ {0} :
        LET s == Max2(0, now + dt - MaxTime)
            W0 == [World EXCEPT !.atlas.lastUpdate = Earlier(@, s),
                                !.atlas.lastMoveAt = Earlier(@, s)]
            prev == [last EXCEPT !.ranAt = Earlier(@, s)]
        IN  /\ Called(update(W0, f, now + dt - s, cfg, prev))
            /\ now' = now + dt - s
            /\ UNCHANGED <<refining, cfg, env, overlay>>

\* the camera stops: every later update() is called with one and the same frame
HoldCamera ==
    /\ env.frames \notin HeldNames
    /\ \E kind \in HeldNames : env' = [env EXCEPT !.frames = kind]
    /\ UNCHANGED <<cfg, atlas, retired, fetches, pinNet, uniforms, material, refining, rtLive, now, last, overlay>>

InitLive == InitWith(LiveScenarios)

NextLive == UpdateAdvancing \/ HoldCamera \/ FetchResolve

\* update() keeps being called and every promise is fulfilled in the end
\* (every call changes the state: the throttle lets every other call pass)
SpecLive == InitLive /\ [][NextLive]_vars /\ []<><<UpdateAdvancing>>_vars /\ WF_vars(FetchResolve)

Held == env.frames \in HeldNames

\* every desired tile of every zoom state is resident, bound to its cell of
\* the grid, and composited
Settled ==
    \A z \in DOMAIN atlas.byZoom :
        LET st == atlas.byZoom[z]
        IN  /\ ~st.dirty
            /\ \A k \in st.activeKeys :
                   /\ k \in st.textures
                   /\ InGrid(st.grid, KeyX(k), KeyY(k))
                   /\ st.cells[CellIdx(st.grid, KeyX(k), KeyY(k))] = k

\* C33 as stated: once the camera is held, the atlas settles, whatever the
\* configuration and wherever the camera is held
C33_HeldCameraSettles == Held ~> Settled

\* C33: once the camera is held at a position that has a projection, with tile
\* loading enabled, the atlas settles: every desired tile of every zoom state
\* becomes resident, bound to its cell and composited, and stays so
C33_HeldCameraSettlesWhenLoading ==
    (Held /\ ~cfg.skipTileLoad /\ camMercValid(HeldFrame(env.frames))) ~> []Settled

\* the camera is held over two tiles and both are resident and composited,
\* under the debounce gate, after the clock passed MaxTime
C33_Witness ==
    /\ Held /\ ~cfg.skipTileLoad /\ Settled
    /\ \E z \in DOMAIN atlas.byZoom : Cardinality(atlas.byZoom[z].activeKeys) >= 2
    /\ cfg.debounceMs > 0
    /\ now = MaxTime

\* the camera is held with tile loading off: the desired tiles are never fetched
HeldWithoutLoading ==
    /\ Held /\ cfg.skipTileLoad /\ ~Settled /\ fetches = {}
    /\ last.op = "update" /\ last.gate = "ran"

\* the camera is held where it has no projection while a zoom state waits
HeldWithoutProjection ==
    /\ env.frames = "held-missing" /\ ~cfg.skipTileLoad /\ ~Settled /\ fetches = {}
    /\ last.op = "update" /\ last.gate = "invalid"

---------------------------------------------------------------------------
(* Pins under a tile source that comes and goes *)

InitSource == InitWith(SourceScenarios)

\* pin and unpin calls of one key differ by MaxPinDrift at most
PinsWithin == \A k \in DOMAIN pinNet : Abs(pinNet[k]) <= MaxPinDrift

UpdateWithin == Update /\ PinsWithin'

ClearWithin == Clear /\ PinsWithin'

NextSource == UpdateWithin \/ ClearWithin \/ FetchResolve

\* update(), clear() and completions while this._tiles() returns a tile
\* source or null
SpecSource == InitSource /\ [][NextSource]_vars

\* C34: after an update() that ran the tile selection with a tile source,
\* every key in the desired set of a zoom state is pinned, and no key has
\* more unpin calls than pin calls
C34_DesiredPinnedNoStrayUnpin ==
    /\ (UpdateRan /\ last.camera.tiles) => \A k \in Desired : PinCount(pinNet, k) >= 1
    /\ \A k \in DOMAIN pinNet : pinNet[k] >= 0

\* a key is pinned at most once, and only while it is in a desired set
PinnedOnlyWhileDesired ==
    \A k \in DOMAIN pinNet : pinNet[k] <= 1 /\ (pinNet[k] = 1 => k \in Desired)

\* update() ran with a tile source and a desired key is not pinned
DesiredUnpinnedUnderSource ==
    UpdateRan /\ last.camera.tiles /\ \E k \in Desired : PinCount(pinNet, k) = 0

\* a key has been unpinned without having been pinned
StrayUnpin == \E k \in DOMAIN pinNet : pinNet[k] < 0

---------------------------------------------------------------------------
(* Resident textures and the desired set *)

\* the resident textures of every zoom state are among its desired keys
TexturesWithinDesired ==
    \A z \in DOMAIN atlas.byZoom : atlas.byZoom[z].textures \subseteq atlas.byZoom[z].activeKeys

\* C35: after an update() that ran the tile selection with tile loading
\* enabled, and after a fetch completion, the resident textures of every zoom
\* state of the table are keys of its desired set
C35_TexturesWithinDesired ==
    ((UpdateRan /\ ~cfg.skipTileLoad) \/ last.op = "resolve") => TexturesWithinDesired

\* an update() whose desired set lost a resident tile ran, and another tile
\* of the zoom is still resident
C35_Witness ==
    /\ UpdateRan /\ ~cfg.skipTileLoad
    /\ \E z \in DOMAIN atlas.byZoom : atlas.byZoom[z].textures # {}
    /\ \E p \in fetches : p.at = 0 /\ p.key \notin Desired

---------------------------------------------------------------------------
(* Zoom states and shader slots *)

\* the zooms _getAtlasZoomSlots(4) binds to the shader slots
SlotZooms == {getAtlasZoomSlots(atlas.byZoom, 4)[i] : i \in 1..Len(getAtlasZoomSlots(atlas.byZoom, 4))}

\* C36: after an update() that ran the tile selection, the table holds four
\* zoom states at most and every one of them is bound to a shader slot
C36_EveryStateHasSlot ==
    UpdateRan => (Cardinality(DOMAIN atlas.byZoom) <= 4 /\ DOMAIN atlas.byZoom \subseteq SlotZooms)

\* the same in trapezoid mode and under a viewport maxLevels of four at most
EveryStateHasSlotWithinFourLevels ==
    (UpdateRan /\ (cfg.mode = "trapezoid" \/ cfg.maxLevels <= 4)) =>
        (Cardinality(DOMAIN atlas.byZoom) <= 4 /\ DOMAIN atlas.byZoom \subseteq SlotZooms)

\* update() ran and a zoom state with desired tiles has no shader slot
StateWithoutSlot ==
    /\ UpdateRan
    /\ \E z \in DOMAIN atlas.byZoom \ SlotZooms : atlas.byZoom[z].activeKeys # {}

---------------------------------------------------------------------------
(* Uniform slots and disposed render targets *)

\* no slot of the atlas uniforms holds the texture of a disposed render target
NoStaleSlot == \A i \in DOMAIN uniforms.slots : uniforms.slots[i].tex # "stale"

\* C37: after an update() call and after a clear() call no uniform slot of the
\* terrain material references the render target of a zoom state that was
\* disposed or replaced by a recreated one
C37_NoSlotOnDisposedTarget == last.op \in {"update", "clear"} => NoStaleSlot

\* clear() on an installed atlas after an update() that ran the tile
\* selection: the render targets are gone and every slot is empty
C37_Witness ==
    /\ last.op = "clear" /\ last.gate = "none" /\ last.ranAt # NoTime
    /\ uniforms.present /\ rtLive = 0
    /\ \A i \in DOMAIN uniforms.slots : uniforms.slots[i] = EmptySlot

\* update() on an installed atlas replaced or composited a zoom state and
\* bound its render target to a slot
RepublishedAfterWork ==
    /\ UpdateRan /\ uniforms.present /\ last.work = "before"
    /\ \E i \in DOMAIN uniforms.slots : uniforms.slots[i].tex = "live" /\ uniforms.slots[i].grid[3] > 1

---------------------------------------------------------------------------
(* The tiles of one refinement are disjoint *)

\* the quadtree node of an entry of tilesByZoom
NodeOf(u) == [tileX |-> u.tileX, tileY |-> u.tileY, z |-> KeyZ(u.key)]

\* C38: once the refinement loop of trapezoid mode has ended, no two entries
\* of tilesByZoom have the same key and none is the tile of a quadtree
\* ancestor of another, so no two of them cover a common ground point
C38_SelectedTilesDisjoint ==
    refining.pc = "done"
    => \A i, j \in DOMAIN refining.tilesByZoom :
          i # j => ~WithinNode(refining.tilesByZoom[i], NodeOf(refining.tilesByZoom[j]))

\* the loop refined over three zooms, stopped at its work cap and added the
\* nodes left on the stack
C38_Witness ==
    /\ refining.pc = "done"
    /\ refining.stack # <<>>
    /\ Cardinality({KeyZ(refining.tilesByZoom[i].key) : i \in DOMAIN refining.tilesByZoom}) >= 3

---------------------------------------------------------------------------
(* Install, disable, install again *)

\* C39: disableOnAllMaterials() on a material that carries the atlas hook puts
\* back the compile hook and the program-cache-key function the material had
\* before the installation, and an installOnMaterial() that then installs the
\* hook again chains those once, without the atlas hook that was removed
C39_InstallDisableRoundTrip ==
    [][/\ (last'.op = "disable" /\ material.userData.mapAtlasInstalled
            => /\ material'.onBeforeCompile = material.created
               /\ material'.customProgramCacheKey = material.created
               /\ ~material'.userData.mapAtlasInstalled)
       /\ (last'.op = "install" /\ ~material.userData.mapAtlasInstalled
                /\ material'.userData.mapAtlasInstalled
            => /\ material.onBeforeCompile = material.created
               /\ material.customProgramCacheKey = material.created
               /\ material'.onBeforeCompile = atlasHook(material.created, last'.version)
               /\ material'.customProgramCacheKey = atlasHook(material.created, last'.version)
               /\ material'.onBeforeCompile.calls = ChainedOnce(material'))]_vars

\* the atlas hook is installed again on a material of the host from which an
\* earlier installation was removed
C39_Witness ==
    /\ last.op = "install"
    /\ ~last.before.userData.mapAtlasInstalled
    /\ last.before.userData.mapAtlasVersion # 0
    /\ last.before.created = HostHook
    /\ material.userData.mapAtlasInstalled

---------------------------------------------------------------------------
(* The tile uniforms of OverlayTerrainMesh *)

\* the largest number of tiles getTilesIntersectingPolygon returns
MaxOverlayTiles == 17

\* what rgbTerrain.getTilesIntersectingPolygon(polygon) can return: n tiles,
\* of which at most one has no heightTexture yet
OverlayTiles ==
    {[i \in 1..n |-> [id |-> i, heightTexture |-> i # miss]] : n \in 0..MaxOverlayTiles, miss \in 0..MaxOverlayTiles}

\* createMesh()
CreateMesh ==
    \E tiles \in OverlayTiles :
        /\ overlay' = createMesh(overlay, tiles)
        /\ last' = [NoObs EXCEPT !.op = "createMesh"]
        /\ UNCHANGED <<cfg, env, atlas, retired, fetches, pinNet, uniforms, material, refining, rtLive, now>>

\* updateFromTerrain(renderer) with a terrain and a renderer
UpdateFromTerrain ==
    \E tiles \in OverlayTiles, loaded \in BOOLEAN :
        /\ overlay' = updateFromTerrain(overlay, loaded, tiles)
        /\ last' = [NoObs EXCEPT !.op = "updateFromTerrain"]
        /\ UNCHANGED <<cfg, env, atlas, retired, fetches, pinNet, uniforms, material, refining, rtLive, now>>

InitOverlay == InitWith({[cfg |-> BaseConfig, env |-> LayoutEnv]})

NextOverlay == CreateMesh \/ UpdateFromTerrain

SpecOverlay == InitOverlay /\ [][NextOverlay]_vars

\* the entries of heightTextures that are not the placeholder
RealEntries == {i \in DOMAIN overlay.heightTextures : overlay.heightTextures[i] # Placeholder}

\* each of the three arrays has MAX_TILES entries, real in the same places
ArraysPadded ==
    /\ DOMAIN overlay.heightTextures = 1..MAX_TILES
    /\ DOMAIN overlay.tileBounds = 1..MAX_TILES
    /\ DOMAIN overlay.tileElevRange = 1..MAX_TILES
    /\ \A i \in 1..MAX_TILES :
          (overlay.heightTextures[i] # Placeholder) = (overlay.tileBounds[i] # Placeholder)
          /\ (overlay.heightTextures[i] # Placeholder) = (overlay.tileElevRange[i] # Placeholder)

\* C40: after createMesh() and after updateFromTerrain() each of the three
\* tile arrays has MAX_TILES entries and tileCount is the number of entries
\* that are not placeholders, so it is MAX_TILES at most and counts no tile
\* that was skipped for lacking a heightTexture
C40_TileCountIsRealEntries ==
    last.op \in {"createMesh", "updateFromTerrain"}
    => /\ ArraysPadded
       /\ overlay.tileCount = Cardinality(RealEntries)
       /\ overlay.tileCount <= MAX_TILES

\* tileCount counts a tile that has no entry because it has no heightTexture
CountsSkippedTile ==
    /\ last.op \in {"createMesh", "updateFromTerrain"}
    /\ overlay.tileCount <= MAX_TILES
    /\ overlay.tileCount > Cardinality(RealEntries)

\* tileCount is larger than MAX_TILES
CountBeyondMaxTiles ==
    /\ last.op \in {"createMesh", "updateFromTerrain"}
    /\ overlay.tileCount > MAX_TILES

====
